---------------------------- MODULE Spec2Model ----------------------------
(***************************************************************************)
(* A model of the msgcat runtime message catalog (msgcat.go): language     *)
(* resolution, the catalog store with its runtime layer, the loader with   *)
(* retry, the statistics registry and the asynchronous observer pipeline.  *)
(*                                                                         *)
(* Strings are TLA+ strings; the Go string functions the code relies on    *)
(* (TrimSpace, ToLower, ReplaceAll, Index, HasPrefix, HasSuffix) are       *)
(* computed character by character with Len, SubSeq and \o.                *)
(***************************************************************************)
EXTENDS Integers, Sequences, FiniteSets, TLC

(***************************************************************************)
(* Bounds of the model                                                     *)
(***************************************************************************)
\* facade calls (GetMessageWithCtx, LoadMessages, Reload, Close, ResetStats)
\* started in one behaviour
MaxOps == 2
\* writes to the source directory in one behaviour
MaxDiskWrites == 1
\* goroutines of the application that call the facade
NumThreads == 2
\* the configured ObserverBuffer, StatsMaxKeys and ReloadRetries
ObserverBuffer == 1
StatsMaxKeys == 3
ReloadRetries == 1
\* largest StatsMaxKeys the stats-registry specification configures
MaxStatsCap == 3
\* increments recorded in one behaviour of the stats-registry specification
MaxStatEvents == 4
\* requests resolved in one behaviour of the language-resolution specification
MaxResolves == 2
\* LoadMessages on its own: calls made, messages per call
MaxLoads == 2
MaxBatch == 2
\* requests on their own: calls made
MaxGets == 3
\* Reload on its own: edits of the directory
MaxDiskEdits == 2
\* renderTemplate on its own: calls made
MaxRenders == 2
\* plural.Form on its own: calls made, and the counts -MaxFormCount..MaxFormCount
MaxFormCalls == 1
MaxFormCount == 120
\* the choice of templates on its own: lookups made
MaxSelects == 1
\* the stats registry with its maps as objects: operations started
MaxRegistryOps == 5
\* longest tag handed to normalizeLangTag, and calls in one behaviour
MaxTagLen == 3
MaxNormalizeCalls == 1
\* requests made of a strict and of a lenient catalog in one behaviour
MaxStrictCalls == 1
\* renderings of a template around a parameter value in one behaviour
MaxValueRenders == 1

(***************************************************************************)
(* Program constants                                                       *)
(***************************************************************************)
RuntimeKeyPrefix == "sys."
CodeMissingMessage == "msgcat.missing_message"
CodeMissingLanguage == "msgcat.missing_language"
overflowStatKey == "__overflow__"
StatKeyMaxLen == 120

(***************************************************************************)
(* Go string helpers                                                       *)
(***************************************************************************)
Char(s, i) == SubSeq(s, i, i)

UpperLetters == "ABCDEFGHIJKLMNOPQRSTUVWXYZ"
LowerLetters == "abcdefghijklmnopqrstuvwxyz"
Digits == "0123456789"

Contains(set, c) == \E i \in 1..Len(set) : Char(set, i) = c

IsSpace(c) == c = " " \/ c = "\t" \/ c = "\n" \/ c = "\r"

LowerChar(c) ==
    IF Contains(UpperLetters, c)
    THEN Char(LowerLetters, CHOOSE i \in 1..26 : Char(UpperLetters, i) = c)
    ELSE c

RECURSIVE ToLower(_)
ToLower(s) ==
    IF s = "" THEN "" ELSE LowerChar(Char(s, 1)) \o ToLower(SubSeq(s, 2, Len(s)))

RECURSIVE TrimLeft(_)
TrimLeft(s) ==
    IF s # "" /\ IsSpace(Char(s, 1)) THEN TrimLeft(SubSeq(s, 2, Len(s))) ELSE s

RECURSIVE TrimRight(_)
TrimRight(s) ==
    IF s # "" /\ IsSpace(Char(s, Len(s))) THEN TrimRight(SubSeq(s, 1, Len(s) - 1)) ELSE s

TrimSpace(s) == TrimRight(TrimLeft(s))

RECURSIVE ReplaceAll(_, _, _)
ReplaceAll(s, old, new) ==
    IF s = "" THEN ""
    ELSE (IF Char(s, 1) = old THEN new ELSE Char(s, 1))
         \o ReplaceAll(SubSeq(s, 2, Len(s)), old, new)

\* strings.Index for a one-character needle, 0-based, -1 when absent
Index(s, c) ==
    IF \E i \in 1..Len(s) : Char(s, i) = c
    THEN (CHOOSE i \in 1..Len(s) :
            Char(s, i) = c /\ \A j \in 1..(i - 1) : Char(s, j) # c) - 1
    ELSE -1

HasPrefix(s, p) == Len(s) >= Len(p) /\ SubSeq(s, 1, Len(p)) = p
HasSuffix(s, p) == Len(s) >= Len(p) /\ SubSeq(s, Len(s) - Len(p) + 1, Len(s)) = p
TrimSuffix(s, p) == IF HasSuffix(s, p) THEN SubSeq(s, 1, Len(s) - Len(p)) ELSE s

\* the empty Go map
EmptyMap == <<>>

Put(m, k, v) == [x \in DOMAIN m \cup {k} |-> IF x = k THEN v ELSE m[x]]

(***************************************************************************)
(* Language tag utility                                                    *)
(***************************************************************************)
\* normalizeLangTag without the TrimSpace
normalizeLangTagUntrimmed(lang) == ReplaceAll(ToLower(lang), "_", "-")

normalizeLangTag(lang) == ReplaceAll(TrimSpace(ToLower(lang)), "_", "-")

baseLangTag(lang) ==
    IF Index(lang, "-") > 0 THEN SubSeq(lang, 1, Index(lang, "-")) ELSE lang

\* appendLangIfMissing on the candidate slice; `seen` is the slice's own set
appendLangIfMissing(target, lang) ==
    IF lang = "" THEN target
    ELSE IF \E i \in 1..Len(target) : target[i] = lang THEN target
    ELSE Append(target, lang)

RECURSIVE appendFallbacks(_, _)
appendFallbacks(target, langs) ==
    IF langs = <<>> THEN target
    ELSE appendFallbacks(appendLangIfMissing(target, normalizeLangTag(Head(langs))),
                         Tail(langs))


(***************************************************************************)
(* Statistics registry: the pure part                                      *)
(***************************************************************************)
sanitizeStatKey(key) ==
    LET k == TrimSpace(key) IN
    IF k = "" THEN "unknown"
    ELSE IF Len(k) > StatKeyMaxLen THEN SubSeq(k, 1, StatKeyMaxLen)
    ELSE k

\* incrementKey with both tests against maxKeys instead of maxKeys-1: the
\* variant the cap property must tell apart from the code
incrementKeyLate(target, key, maxKeys) ==
    IF maxKeys > 0 /\ sanitizeStatKey(key) \notin DOMAIN target
       /\ Cardinality(DOMAIN target) >= maxKeys
    THEN overflowStatKey
    ELSE sanitizeStatKey(key)

\* the key catalogStats.increment counts under, for cap maxKeys
incrementKey(target, key, maxKeys) ==
    LET k == sanitizeStatKey(key) IN
    IF maxKeys > 0 /\ k \notin DOMAIN target
    THEN IF overflowStatKey \in DOMAIN target
         THEN (IF Cardinality(DOMAIN target) >= maxKeys THEN overflowStatKey ELSE k)
         ELSE (IF Cardinality(DOMAIN target) >= maxKeys - 1 THEN overflowStatKey ELSE k)
    ELSE k

\* catalogStats.increment: the map after target[key]++
increment(target, key, maxKeys) ==
    LET k == incrementKey(target, key, maxKeys) IN
    Put(target, k, (IF k \in DOMAIN target THEN target[k] ELSE 0) + 1)

StatMaps == {"languageFallbacks", "missingLanguages", "missingMessages",
             "templateIssues", "droppedEvents"}

\* the key each incrementXxx wrapper formats
languageFallbackKey(requestedLang, resolvedLang) == requestedLang \o "->" \o resolvedLang
missingLanguageKey(lang) == normalizeLangTag(lang)
missingMessageKeyBare(lang, msgKey) == msgKey
missingMessageKey(lang, msgKey) == lang \o ":" \o msgKey
templateIssueKey(lang, msgKey, issue) == lang \o ":" \o msgKey \o ":" \o issue

\* a registry with empty maps and the zero time (time.Time{} is 0)
emptyStats ==
    [languageFallbacks |-> EmptyMap, missingLanguages |-> EmptyMap,
     missingMessages |-> EmptyMap, templateIssues |-> EmptyMap,
     droppedEvents |-> EmptyMap, lastReloadAt |-> 0]

(***************************************************************************)
(* CLDR plural selector (internal/plural)                                  *)
(***************************************************************************)
\* the least int of a build whose int is 32 bits wide
MinInt == (-2147483647) - 1

\* Go's n % m for m > 0 truncates toward zero
\* (n + m is negated, which the least int itself cannot be)
GoMod(n, m) == IF n >= 0 THEN n % m ELSE -((-(n + m)) % m)

formOneOther(n) == IF n = 1 THEN "one" ELSE "other"

formArabic(n) ==
    IF n = 0 THEN "zero"
    ELSE IF n = 1 THEN "one"
    ELSE IF n = 2 THEN "two"
    ELSE IF n >= 3 /\ n <= 10 THEN "few"
    ELSE IF n >= 11 /\ n <= 99 THEN "many"
    ELSE "other"

formRussian(n) ==
    LET n10 == GoMod(n, 10)
        n100 == GoMod(n, 100)
    IN IF n10 = 1 /\ n100 # 11 THEN "one"
       ELSE IF n10 >= 2 /\ n10 <= 4 /\ (n100 < 12 \/ n100 > 14) THEN "few"
       ELSE IF n10 = 0 \/ (n10 >= 5 /\ n10 <= 9) \/ (n100 >= 11 /\ n100 <= 14) THEN "many"
       ELSE "other"

formPolish(n) ==
    LET n10 == GoMod(n, 10)
        n100 == GoMod(n, 100)
    IN IF n = 1 THEN "one"
       ELSE IF n10 >= 2 /\ n10 <= 4 /\ (n100 < 12 \/ n100 > 14) THEN "few"
       ELSE IF n10 = 0 \/ (n10 >= 5 /\ n10 <= 9) \/ (n100 >= 12 /\ n100 <= 14) THEN "many"
       ELSE "other"

formWelsh(n) ==
    IF n = 0 THEN "zero"
    ELSE IF n = 1 THEN "one"
    ELSE IF n = 2 THEN "two"
    ELSE IF n = 3 THEN "few"
    ELSE IF n = 6 THEN "many"
    ELSE "other"

formHebrew(n) ==
    IF n = 1 THEN "one"
    ELSE IF n = 2 THEN "two"
    ELSE IF n >= 3 /\ n <= 10 THEN "few"
    ELSE IF n >= 11 /\ n <= 99 THEN "many"
    ELSE "other"

Form(lang, count) ==
    LET b0 == ToLower(TrimSpace(lang))
        b1 == IF Index(b0, "-") > 0 THEN SubSeq(b0, 1, Index(b0, "-")) ELSE b0
        base == IF Index(b1, "_") > 0 THEN SubSeq(b1, 1, Index(b1, "_")) ELSE b1
        \* -n wraps to itself for the least int
        n == IF count < 0 /\ count # MinInt THEN -count ELSE count
    IN IF base = "ar" THEN formArabic(n)
       ELSE IF base \in {"ru", "uk", "be", "sr", "hr", "bs", "sh"} THEN formRussian(n)
       ELSE IF base = "pl" THEN formPolish(n)
       ELSE IF base \in {"cy", "br", "ga", "gd", "gv", "kw", "mt", "sm", "ak"} THEN formWelsh(n)
       ELSE IF base \in {"he", "iw"} THEN formHebrew(n)
       ELSE IF base \in {"en", "es", "fr", "de", "it", "pt", "nl", "no", "sv", "da",
                         "fi", "tr", "el", "ja", "ko", "zh", "th", "vi", "id", "hi"}
            THEN formOneOther(n)
       ELSE "other"

(***************************************************************************)
(* Parameter values.  A parameter is a tagged value:                       *)
(*   [t |-> "string", s], [t |-> "int", n], [t |-> "bool", b],             *)
(*   [t |-> "float", neg, int, frac]  (decimal digits of the shortest      *)
(*        representation: integer part and fraction without trailing 0s),  *)
(*   [t |-> "time", y, mo, d, h, mi, sec]  (UTC),  [t |-> "nilTime"]  (a   *)
(*   nil *time.Time),  [t |-> "other", s]  (any other kind, s its %v form) *)
(***************************************************************************)
RECURSIVE NatToString(_)
NatToString(n) ==
    IF n < 10 THEN Char(Digits, n + 1)
    ELSE NatToString(n \div 10) \o Char(Digits, (n % 10) + 1)

IntToString(n) == IF n < 0 THEN "-" \o NatToString(-n) ELSE NatToString(n)

Pad2(n) == IF n < 10 THEN "0" \o NatToString(n) ELSE NatToString(n)

RECURSIVE Pad4(_)
Pad4(s) == IF Len(s) < 4 THEN Pad4("0" \o s) ELSE s

FloatToString(v) ==
    (IF v.neg THEN "-" ELSE "") \o NatToString(v.int)
    \o (IF v.frac = "" THEN "" ELSE "." \o v.frac)

isPluralOne(value) ==
    IF value.t = "int" THEN [isOne |-> value.n = 1, ok |-> TRUE]
    ELSE IF value.t = "float"
         THEN [isOne |-> ~value.neg /\ value.int = 1 /\ value.frac = "", ok |-> TRUE]
    ELSE [isOne |-> FALSE, ok |-> FALSE]

\* int(typed) of a float truncates toward zero
pluralCountFromParam(value) ==
    IF value.t = "int" THEN [count |-> value.n, ok |-> TRUE]
    ELSE IF value.t = "float"
         THEN [count |-> IF value.neg THEN -value.int ELSE value.int, ok |-> TRUE]
    ELSE [count |-> 0, ok |-> FALSE]

selectCLDRForm(forms, lang, count, defaultTpl) ==
    IF DOMAIN forms = {} THEN defaultTpl
    ELSE LET form == Form(lang, count) IN
         IF form \in DOMAIN forms /\ forms[form] # "" THEN forms[form]
         ELSE IF "other" \in DOMAIN forms /\ forms["other"] # "" THEN forms["other"]
         ELSE defaultTpl

RFC3339(v) ==
    Pad4(NatToString(v.y)) \o "-" \o Pad2(v.mo) \o "-" \o Pad2(v.d) \o "T"
    \o Pad2(v.h) \o ":" \o Pad2(v.mi) \o ":" \o Pad2(v.sec) \o "Z"

toString(value) ==
    IF value.t = "string" THEN value.s
    ELSE IF value.t = "int" THEN IntToString(value.n)
    ELSE IF value.t = "float" THEN FloatToString(value)
    ELSE IF value.t = "bool" THEN (IF value.b THEN "true" ELSE "false")
    ELSE IF value.t = "time" THEN RFC3339(value)
    ELSE IF value.t = "nilTime" THEN "<nil>"
    ELSE value.s

RECURSIVE groupFrom(_, _, _)
groupFrom(input, i, separator) ==
    IF i > Len(input) THEN ""
    ELSE separator \o SubSeq(input, i, i + 2) \o groupFrom(input, i + 3, separator)

groupDigits(input, separator) ==
    IF Len(input) <= 3 THEN input
    ELSE LET start == IF Len(input) % 3 = 0 THEN 3 ELSE Len(input) % 3
         IN SubSeq(input, 1, start) \o groupFrom(input, start + 1, separator)

SwappedSeparatorLangs == {"es", "pt", "fr", "de", "it"}

formatNumberByLang(lang, value) ==
    LET swapped == baseLangTag(lang) \in SwappedSeparatorLangs
        decimalSeparator == IF swapped THEN "," ELSE "."
        groupSeparator == IF swapped THEN "." ELSE ","
    IN IF value.t = "int"
       THEN [text |-> (IF value.n < 0 THEN "-" ELSE "")
                      \o groupDigits(NatToString(IF value.n < 0 THEN -value.n ELSE value.n),
                                     groupSeparator),
             ok |-> TRUE]
       ELSE IF value.t = "float"
       THEN [text |-> (IF value.neg THEN "-" ELSE "")
                      \o groupDigits(NatToString(value.int), groupSeparator)
                      \o (IF value.frac = "" THEN "" ELSE decimalSeparator \o value.frac),
             ok |-> TRUE]
       ELSE [text |-> "", ok |-> FALSE]

formatDateByLang(lang, value) ==
    IF value.t # "time" THEN [text |-> "", ok |-> FALSE]
    ELSE IF baseLangTag(lang) \in SwappedSeparatorLangs
         THEN [text |-> Pad2(value.d) \o "/" \o Pad2(value.mo) \o "/" \o Pad4(NatToString(value.y)),
               ok |-> TRUE]
    ELSE [text |-> Pad2(value.mo) \o "/" \o Pad2(value.d) \o "/" \o Pad4(NatToString(value.y)),
          ok |-> TRUE]

(***************************************************************************)
(* The placeholder regexes, matched at a position of the template          *)
(***************************************************************************)
IsNameStart(c) == Contains(UpperLetters, c) \/ Contains(LowerLetters, c) \/ c = "_"
IsNameChar(c) == IsNameStart(c) \/ Contains(Digits, c) \/ c = "."

HasAt(s, i, lit) == i + Len(lit) - 1 <= Len(s) /\ SubSeq(s, i, i + Len(lit) - 1) = lit

\* length of the longest run of name characters of s from position i
NameRun(s, i) ==
    CHOOSE n \in 0..(Len(s) - i + 1) :
        /\ \A j \in i..(i + n - 1) : IsNameChar(Char(s, j))
        /\ (i + n > Len(s) \/ ~IsNameChar(Char(s, i + n)))

\* length of the longest run from position i of characters other than `stop`
RunUntil(s, i, stop) ==
    CHOOSE n \in 0..(Len(s) - i + 1) :
        /\ \A j \in i..(i + n - 1) : Char(s, j) \notin stop
        /\ (i + n > Len(s) \/ Char(s, i + n) \in stop)

NoMatch == [ok |-> FALSE, name |-> "", a |-> "", b |-> "", end |-> 0]

\* the name of {{<prefix><name>}} runs from st to e - 1; "}}" must follow
matchNamedEnd(s, st, e) ==
    IF HasAt(s, e, "}}")
    THEN [ok |-> TRUE, name |-> SubSeq(s, st, e - 1), a |-> "", b |-> "", end |-> e + 2]
    ELSE NoMatch

matchNamedFrom(s, st) ==
    IF st > Len(s) \/ ~IsNameStart(Char(s, st)) THEN NoMatch
    ELSE matchNamedEnd(s, st, st + NameRun(s, st))

\* {{<prefix><name>}} at position i; end is the position after the match
matchNamed(s, i, prefix) ==
    IF HasAt(s, i, "{{" \o prefix) THEN matchNamedFrom(s, i + 2 + Len(prefix)) ELSE NoMatch

\* the second alternative [^}]* runs from b0 to b1 - 1; "}}" must follow
matchPluralEnd(s, st, e, a0, a1, b0, b1) ==
    IF HasAt(s, b1, "}}")
    THEN [ok |-> TRUE, name |-> SubSeq(s, st, e - 1), a |-> SubSeq(s, a0, a1 - 1),
          b |-> SubSeq(s, b0, b1 - 1), end |-> b1 + 2]
    ELSE NoMatch

\* the first alternative [^|}]* runs from a0 to a1 - 1; "|" must follow
matchPluralSecond(s, st, e, a0, a1) ==
    IF HasAt(s, a1, "|")
    THEN matchPluralEnd(s, st, e, a0, a1, a1 + 1, a1 + 1 + RunUntil(s, a1 + 1, {"}"}))
    ELSE NoMatch

\* the name runs from st to e - 1; "|" must follow
matchPluralFirst(s, st, e) ==
    IF HasAt(s, e, "|")
    THEN matchPluralSecond(s, st, e, e + 1, e + 1 + RunUntil(s, e + 1, {"|", "}"}))
    ELSE NoMatch

matchPluralFrom(s, st) ==
    IF st > Len(s) \/ ~IsNameStart(Char(s, st)) THEN NoMatch
    ELSE matchPluralFirst(s, st, st + NameRun(s, st))

\* pluralPlaceholderRegex: {{plural:<name>|<[^|}]*>|<[^}]*>}}
matchPlural(s, i) ==
    IF HasAt(s, i, "{{plural:") THEN matchPluralFrom(s, i + 9) ELSE NoMatch

classPrefix(class) ==
    IF class = "number" THEN "num:" ELSE IF class = "date" THEN "date:" ELSE ""

matchAt(class, s, i) ==
    IF class = "plural" THEN matchPlural(s, i) ELSE matchNamed(s, i, classPrefix(class))

(***************************************************************************)
(* renderTemplate.  A pass yields the text and, in order, the issues it    *)
(* reports through onTemplateIssue.                                        *)
(***************************************************************************)
replaceMissingKeepsToken(issue, originalToken, paramName, strict) ==
    [text |-> originalToken, issues |-> <<issue>>]

replaceMissing(issue, originalToken, paramName, strict) ==
    [text |-> IF strict THEN "<missing:" \o paramName \o ">" ELSE originalToken,
     issues |-> <<issue>>]

\* a formatted value, or the token left in place with an issue
formatted(res, token, issue) ==
    IF res.ok THEN [text |-> res.text, issues |-> <<>>]
    ELSE [text |-> token, issues |-> <<issue>>]

pluralChoice(one, m) == [text |-> IF one.isOne THEN m.a ELSE m.b, ok |-> one.ok]

\* the replacement callback of one pass for the match m of token, val the
\* parameter's value
replaceValue(class, token, m, lang, val) ==
    IF class = "plural"
    THEN formatted(pluralChoice(isPluralOne(val), m), token, "plural_invalid_param_" \o m.name)
    ELSE IF class = "number"
    THEN formatted(formatNumberByLang(lang, val), token, "number_invalid_param_" \o m.name)
    ELSE IF class = "date"
    THEN formatted(formatDateByLang(lang, val), token, "date_invalid_param_" \o m.name)
    ELSE [text |-> toString(val), issues |-> <<>>]

replaceToken(class, token, m, lang, params, strict) ==
    IF m.name \notin DOMAIN params
    THEN replaceMissing(class \o "_missing_param_" \o m.name, token, m.name, strict)
    ELSE replaceValue(class, token, m, lang, params[m.name])

\* two results of a pass, one after the other
joined(r, rest) == [text |-> r.text \o rest.text, issues |-> r.issues \o rest.issues]

\* ReplaceAllStringFunc of one placeholder class over s from position i; m is
\* the match at i
RECURSIVE replaceFrom(_, _, _, _, _, _, _)
replaceFrom(class, s, i, m, lang, params, strict) ==
    IF i > Len(s) THEN [text |-> "", issues |-> <<>>]
    ELSE IF m.ok
    THEN joined(replaceToken(class, SubSeq(s, i, m.end - 1), m, lang, params, strict),
                replaceFrom(class, s, m.end, matchAt(class, s, m.end), lang, params, strict))
    ELSE joined([text |-> Char(s, i), issues |-> <<>>],
                replaceFrom(class, s, i + 1, matchAt(class, s, i + 1), lang, params, strict))

replacePass(class, s, lang, params, strict) ==
    replaceFrom(class, s, 1, matchAt(class, s, 1), lang, params, strict)

HasBraces(s) == \E i \in 1..Len(s) : HasAt(s, i, "{{")

\* the simple pass over the result of the date pass, and so on backwards
afterPasses(p1, p2, p3, p4) ==
    [text |-> p4.text, issues |-> p1.issues \o p2.issues \o p3.issues \o p4.issues]

renderDate(p1, p2, p3, lang, params, strict) ==
    afterPasses(p1, p2, p3, replacePass("simple", p3.text, lang, params, strict))

renderNumber(p1, p2, lang, params, strict) ==
    renderDate(p1, p2, replacePass("date", p2.text, lang, params, strict), lang, params, strict)

renderPlural(p1, lang, params, strict) ==
    renderNumber(p1, replacePass("number", p1.text, lang, params, strict), lang, params, strict)

\* renderTemplate with a simple pass ahead of the four
renderTemplateSimpleFirst(lang, template, params, strict) ==
    IF ~HasBraces(template) THEN [text |-> template, issues |-> <<>>]
    ELSE renderPlural(replacePass("plural",
                                  replacePass("simple", template, lang, params, strict).text,
                                  lang, params, strict),
                      lang, params, strict)

\* renderTemplate: plural, number, date, simple, each over the previous text
renderTemplate(lang, template, params, strict) ==
    IF ~HasBraces(template) THEN [text |-> template, issues |-> <<>>]
    ELSE renderPlural(replacePass("plural", template, lang, params, strict),
                      lang, params, strict)

(***************************************************************************)
(* Catalog store: entries, language messages, the loader's pure part       *)
(***************************************************************************)
\* the zero RawMessage
zeroRawMessage ==
    [ShortTpl |-> "", LongTpl |-> "", Code |-> "", ShortForms |-> EmptyMap,
     LongForms |-> EmptyMap, PluralParam |-> ""]

\* Messages{Set: map[string]RawMessage{}}: the skeleton of a language that has
\* no source file
skeletonMessages == [Group |-> "", Default |-> zeroRawMessage, Set |-> EmptyMap]

IsKeyChar(c) ==
    Contains(UpperLetters, c) \/ Contains(LowerLetters, c) \/ Contains(Digits, c)
    \/ c = "_" \/ c = "." \/ c = "-"

\* messageKeyRegex.MatchString
messageKeyRegexMatch(key) == key # "" /\ \A i \in 1..Len(key) : IsKeyChar(Char(key, i))

\* normalizeAndValidateMessages: TRUE when the file's messages are accepted
normalizeAndValidateMessages(messages) ==
    /\ ~(messages.Default.ShortTpl = "" /\ messages.Default.LongTpl = "")
    /\ \A key \in DOMAIN messages.Set : key # "" /\ messageKeyRegexMatch(key)

\* A source directory is [exists, files]; files maps a file name to
\* [kind |-> "yaml", messages] or to [kind |-> "garbage"] (not parseable).
\* The file names of a directory normalize to distinct languages.
yamlFiles(dir) == {f \in DOMAIN dir.files : HasSuffix(f, ".yaml")}
fileLang(f) == normalizeLangTag(TrimSuffix(f, ".yaml"))

\* readMessagesFromYaml: one attempt over the whole directory
readMessagesFromYaml(dir) ==
    IF ~dir.exists THEN [ok |-> FALSE, messages |-> EmptyMap]
    ELSE IF \E f \in yamlFiles(dir) :
                \/ dir.files[f].kind # "yaml"
                \/ ~normalizeAndValidateMessages(dir.files[f].messages)
         THEN [ok |-> FALSE, messages |-> EmptyMap]
    ELSE [ok |-> TRUE,
          messages |-> [lang \in {fileLang(f) : f \in yamlFiles(dir)} |->
                          dir.files[CHOOSE f \in yamlFiles(dir) : fileLang(f) = lang].messages]]

\* mergeRuntimeLang with the entries of the file winning over the runtime
\* entries: the variant survival of runtime keys must tell apart from the code
mergeRuntimeLangBaseWins(messageByLang, lang, runtimeSet) ==
    LET msgSet == IF lang \in DOMAIN messageByLang THEN messageByLang[lang]
                  ELSE skeletonMessages
    IN [msgSet EXCEPT !.Set = [key \in DOMAIN msgSet.Set \cup DOMAIN runtimeSet |->
                                 IF key \in DOMAIN msgSet.Set THEN msgSet.Set[key]
                                 ELSE runtimeSet[key]]]

\* the loop body of loadFromYaml for one language of the runtime layer
mergeRuntimeLang(messageByLang, lang, runtimeSet) ==
    LET msgSet == IF lang \in DOMAIN messageByLang THEN messageByLang[lang]
                  ELSE skeletonMessages
    IN [msgSet EXCEPT !.Set = [key \in DOMAIN msgSet.Set \cup DOMAIN runtimeSet |->
                                 IF key \in DOMAIN runtimeSet THEN runtimeSet[key]
                                 ELSE msgSet.Set[key]]]

\* mergeRuntime without the skeleton for a runtime language that has no file
mergeRuntimeOnDisk(messageByLang, runtime) ==
    [lang \in DOMAIN messageByLang |->
        IF lang \in DOMAIN runtime
        THEN mergeRuntimeLang(messageByLang, lang, runtime[lang])
        ELSE messageByLang[lang]]

\* loadFromYaml, lines 247-261: the runtime layer re-applied over a fresh base
mergeRuntime(messageByLang, runtime) ==
    [lang \in DOMAIN messageByLang \cup DOMAIN runtime |->
        IF lang \in DOMAIN runtime
        THEN mergeRuntimeLang(messageByLang, lang, runtime[lang])
        ELSE messageByLang[lang]]

\* the entry LoadMessages stores for a message of the batch
normalizedMessage(message) ==
    [ShortTpl |-> message.ShortTpl, LongTpl |-> message.LongTpl, Code |-> message.Code,
     ShortForms |-> message.ShortForms, LongForms |-> message.LongForms,
     PluralParam |-> message.PluralParam]

\* the checks of LoadMessages without the one for a key already in the set
loadMessageRejectedUnlessTaken(set, message) ==
    \/ message.Key = ""
    \/ ~HasPrefix(message.Key, RuntimeKeyPrefix)
    \/ ~messageKeyRegexMatch(message.Key)

\* the checks LoadMessages makes of one message against the language's set
loadMessageRejected(set, message) ==
    \/ message.Key = ""
    \/ ~HasPrefix(message.Key, RuntimeKeyPrefix)
    \/ ~messageKeyRegexMatch(message.Key)
    \/ message.Key \in DOMAIN set

\* the for loop of LoadMessages: entries are stored one by one, in both maps,
\* until one is rejected
RECURSIVE loadLoop(_, _, _)
loadLoop(set, runtimeSet, batch) ==
    IF batch = <<>> THEN [set |-> set, runtimeSet |-> runtimeSet, ok |-> TRUE]
    ELSE IF loadMessageRejected(set, Head(batch))
         THEN [set |-> set, runtimeSet |-> runtimeSet, ok |-> FALSE]
    ELSE loadLoop(Put(set, Head(batch).Key, normalizedMessage(Head(batch))),
                  Put(runtimeSet, Head(batch).Key, normalizedMessage(Head(batch))),
                  Tail(batch))

\* LoadMessages storing the entries in the runtime mapping only
loadMessagesRuntimeOnly(msgs, runtime, lang, batch) ==
    LET normalizedLang == normalizeLangTag(lang) IN
    IF normalizedLang = "" THEN [messages |-> msgs, runtime |-> runtime, ok |-> FALSE]
    ELSE LET m1 == IF normalizedLang \in DOMAIN msgs THEN msgs
                   ELSE Put(msgs, normalizedLang, skeletonMessages)
             r1 == IF normalizedLang \in DOMAIN runtime THEN runtime
                   ELSE Put(runtime, normalizedLang, EmptyMap)
             res == loadLoop(m1[normalizedLang].Set, r1[normalizedLang], batch)
         IN [messages |-> m1,
             runtime |-> [r1 EXCEPT ![normalizedLang] = res.runtimeSet],
             ok |-> res.ok]

\* LoadMessages on (messages, runtimeMessages): the maps it leaves and its result
loadMessages(msgs, runtime, lang, batch) ==
    LET normalizedLang == normalizeLangTag(lang) IN
    IF normalizedLang = "" THEN [messages |-> msgs, runtime |-> runtime, ok |-> FALSE]
    ELSE LET m1 == IF normalizedLang \in DOMAIN msgs THEN msgs
                   ELSE Put(msgs, normalizedLang, skeletonMessages)
             r1 == IF normalizedLang \in DOMAIN runtime THEN runtime
                   ELSE Put(runtime, normalizedLang, EmptyMap)
             res == loadLoop(m1[normalizedLang].Set, r1[normalizedLang], batch)
         IN [messages |-> [m1 EXCEPT ![normalizedLang].Set = res.set],
             runtime |-> [r1 EXCEPT ![normalizedLang] = res.runtimeSet],
             ok |-> res.ok]

(***************************************************************************)
(* Request path: the pure part                                             *)
(***************************************************************************)
\* A context is [nil, typed, plain]: the value stored under the typed key
\* ContextKey(CtxLanguageKey) and under the plain string key, each
\* [has, v] with v the value's %v form.
NoValue == [has |-> FALSE, v |-> ""]
Value(v) == [has |-> TRUE, v |-> v]

resolveRequestedLang(config, ctx) ==
    LET d == normalizeLangTag(config.DefaultLanguage)
        lang == IF d = "" THEN "en" ELSE d
    IN IF ctx.nil THEN lang
       ELSE IF ctx.typed.has THEN normalizeLangTag(ctx.typed.v)
       ELSE IF ctx.plain.has THEN normalizeLangTag(ctx.plain.v)
       ELSE lang

\* candidateChain without the base tag of the requested language
candidateChainNoBase(config, requestedLang) ==
    LET n0 == normalizeLangTag(requestedLang)
        normalizedRequested == IF n0 = "" THEN "en" ELSE n0
        c1 == appendLangIfMissing(<<>>, normalizedRequested)
        c3 == appendFallbacks(c1, config.FallbackLanguages)
        c4 == appendLangIfMissing(c3, normalizeLangTag(config.DefaultLanguage))
    IN appendLangIfMissing(c4, "en")

\* the candidate chain resolveLanguage builds
candidateChain(config, requestedLang) ==
    LET n0 == normalizeLangTag(requestedLang)
        normalizedRequested == IF n0 = "" THEN "en" ELSE n0
        c1 == appendLangIfMissing(<<>>, normalizedRequested)
        c2 == appendLangIfMissing(c1, baseLangTag(normalizedRequested))
        c3 == appendFallbacks(c2, config.FallbackLanguages)
        c4 == appendLangIfMissing(c3, normalizeLangTag(config.DefaultLanguage))
    IN appendLangIfMissing(c4, "en")

resolveLanguage(config, msgs, requestedLang) ==
    LET n0 == normalizeLangTag(requestedLang)
        normalizedRequested == IF n0 = "" THEN "en" ELSE n0
        candidates == candidateChain(config, requestedLang)
        hits == {i \in 1..Len(candidates) : candidates[i] \in DOMAIN msgs}
    IN IF hits = {} THEN [lang |-> normalizedRequested, found |-> FALSE, usedFallback |-> FALSE]
       ELSE LET candidate == candidates[CHOOSE i \in hits : \A j \in hits : i <= j]
            IN [lang |-> candidate, found |-> TRUE,
                usedFallback |-> candidate # normalizedRequested]

MessageCatalogNotFound(lang, tail) ==
    "Unexpected error in message catalog, language [" \o lang \o "] not found. " \o tail

\* the stock message carrying the code of a missing message
missingLanguageMessageOtherCode(requestedLang, msgKey) ==
    [ShortText |-> MessageCatalogNotFound(requestedLang, ""),
     LongText |-> MessageCatalogNotFound(requestedLang, "Please, contact support."),
     Code |-> CodeMissingMessage, Key |-> msgKey]

missingLanguageMessage(requestedLang, msgKey) ==
    [ShortText |-> MessageCatalogNotFound(requestedLang, ""),
     LongText |-> MessageCatalogNotFound(requestedLang, "Please, contact support."),
     Code |-> CodeMissingLanguage, Key |-> msgKey]

\* GetMessageWithCtx, lines 884-909: the templates and code chosen under the
\* read lock for a language that exists
selectEntry(langMsgSet, resolvedLang, msgKey, params) ==
    IF msgKey \in DOMAIN langMsgSet.Set
    THEN LET msg == langMsgSet.Set[msgKey]
             pluralParam == IF msg.PluralParam = "" THEN "count" ELSE msg.PluralParam
             useForms == /\ (DOMAIN msg.ShortForms # {} \/ DOMAIN msg.LongForms # {})
                         /\ pluralParam \in DOMAIN params
                         /\ pluralCountFromParam(params[pluralParam]).ok
             countVal == IF useForms THEN pluralCountFromParam(params[pluralParam]).count ELSE 0
         IN [shortMessage |-> IF useForms
                              THEN selectCLDRForm(msg.ShortForms, resolvedLang, countVal, msg.ShortTpl)
                              ELSE msg.ShortTpl,
             longMessage |-> IF useForms
                             THEN selectCLDRForm(msg.LongForms, resolvedLang, countVal, msg.LongTpl)
                             ELSE msg.LongTpl,
             code |-> msg.Code, missingMessage |-> FALSE]
    ELSE [shortMessage |-> langMsgSet.Default.ShortTpl,
          longMessage |-> langMsgSet.Default.LongTpl,
          code |-> CodeMissingMessage, missingMessage |-> TRUE]

(***************************************************************************)
(* State                                                                   *)
(***************************************************************************)
VARIABLES
    cfg,              \* Config after NewMessageCatalog applied the defaults
    dir,              \* the source directory: [exists, files, ver]
    clock,            \* the last value NowFn returned
    messages,         \* dmc.messages: language -> Messages
    runtimeMessages,  \* dmc.runtimeMessages: language -> key -> RawMessage
    stats,            \* dmc.stats: the five counter maps and lastReloadAt
    mu,               \* dmc.mu: 0 when free, else the thread holding it exclusively
    observerCh,       \* the field dmc.observerCh: "nil" or "ch"
    chan,             \* the channel made by startObserverWorker: [closed, buf]
    observerDone,     \* "nil", "open" or "closed"
    worker,           \* the consumer goroutine: [pc, evt, last], last the way
                      \* its latest sink call ended
    th,               \* the calling goroutines
    hist              \* history: ops started, disk writes, accepted runtime
                      \* entries, the directory version dmc.messages was read from

vars == <<cfg, dir, clock, messages, runtimeMessages, stats, mu, observerCh, chan,
          observerDone, worker, th, hist>>

Threads == 1..NumThreads

(***************************************************************************)
(* Inputs the model draws from                                             *)
(***************************************************************************)
Raw(short, long, code) ==
    [ShortTpl |-> short, LongTpl |-> long, Code |-> code, ShortForms |-> EmptyMap,
     LongForms |-> EmptyMap, PluralParam |-> ""]

Msg(key, short, long, code) ==
    [Key |-> key, ShortTpl |-> short, LongTpl |-> long, Code |-> code,
     ShortForms |-> EmptyMap, LongForms |-> EmptyMap, PluralParam |-> ""]

EnDefault == Raw("Oops", "Oops {{key}}", "")

EnFile ==
    [kind |-> "yaml",
     messages |-> [Group |-> "0", Default |-> EnDefault,
                   Set |-> [k \in {"hello"} |-> Raw("Hi {{name}}", "", "")]]]

\* en.yaml after an edit that also defines the runtime key sys.a
EnFile2 ==
    [kind |-> "yaml",
     messages |-> [Group |-> "0", Default |-> EnDefault,
                   Set |-> [k \in {"hello", "sys.a"} |->
                              IF k = "hello" THEN Raw("Hello {{name}}", "", "")
                              ELSE Raw("disk", "disk", "1")]]]

EsFile ==
    [kind |-> "yaml",
     messages |-> [Group |-> "", Default |-> Raw("Error", "", ""),
                   Set |-> [k \in {"hello"} |-> Raw("Hola {{name}}", "", "")]]]

GarbageFile == [kind |-> "garbage"]

Files1 == [f \in {"en.yaml", "notes.txt"} |-> IF f = "en.yaml" THEN EnFile ELSE GarbageFile]
Files2 == [f \in {"en.yaml", "ES.yaml"} |-> IF f = "en.yaml" THEN EnFile2 ELSE EsFile]
Files3 == [f \in {"en.yaml"} |-> GarbageFile]
Files4 == [f \in {"ES.yaml"} |-> EsFile]

\* what a write to the directory can leave there
DirContents == {Files1, Files2, Files3, Files4}
InitialDirContents == {Files1}

SysA == Msg("sys.a", "Down", "Back in {{minutes}} min", "503")
SysB == [Msg("sys.b", "", "", "") EXCEPT
            !.ShortForms = [f \in {"one", "other"} |->
                              IF f = "one" THEN "{{count}} item" ELSE "{{count}} items"]]
NoPrefix == Msg("hello2", "x", "", "")

\* the LoadMessages calls the application makes: one accepted for a language
\* on disk, one accepted for a language never on disk (its tag not yet
\* normalized), one whose second message is rejected
LoadCalls ==
    {[lang |-> "en", batch |-> <<SysA>>],
     [lang |-> " PT_br ", batch |-> <<SysB, SysA>>],
     [lang |-> "en", batch |-> <<SysB, NoPrefix>>]}

CtxNil == [nil |-> TRUE, typed |-> NoValue, plain |-> NoValue]
CtxLang(v) == [nil |-> FALSE, typed |-> NoValue, plain |-> Value(v)]

\* nil Params
NoParams == EmptyMap
\* a bag that lacks `minutes`
SomeParams ==
    [n \in {"name", "count"} |->
       IF n = "name" THEN [t |-> "string", s |-> "{{x}}"] ELSE [t |-> "int", n |-> 1]]

\* the requests the application makes
Requests ==
    {[ctx |-> CtxNil, msgKey |-> "hello", params |-> NoParams],
     [ctx |-> CtxLang("es-AR"), msgKey |-> "sys.a", params |-> SomeParams],
     [ctx |-> CtxLang("PT_br"), msgKey |-> "sys.b", params |-> SomeParams],
     [ctx |-> CtxLang(""), msgKey |-> "hello", params |-> SomeParams]}

Config ==
    [DefaultLanguage |-> "en", FallbackLanguages |-> <<"es">>, StrictTemplates |-> TRUE,
     Observer |-> TRUE, ObserverBuffer |-> ObserverBuffer, StatsMaxKeys |-> StatsMaxKeys,
     ReloadRetries |-> ReloadRetries]

(***************************************************************************)
(* Goroutine records                                                       *)
(***************************************************************************)
NoRet == [kind |-> "none"]

idleThread ==
    [op |-> "none", pc |-> "idle", ret |-> NoRet,
     ctx |-> CtxNil, msgKey |-> "", params |-> EmptyMap,
     requestedLang |-> "", resolvedLang |-> "", msg |-> NoRet,
     pending |-> <<>>, cont |-> "", stale |-> FALSE, reason |-> "", handlers |-> <<>>,
     lang |-> "", batch |-> <<>>, attempt |-> 0, read |-> EmptyMap, readVer |-> 0,
     readLoads |-> 0]

\* the goroutine back at its caller with result r of operation op
returned(op, r) == [idleThread EXCEPT !.op = op, !.ret = r]

(***************************************************************************)
(* Observer events                                                         *)
(***************************************************************************)
evtLanguageFallback(requested, resolved) ==
    [kind |-> "LanguageFallback", requested |-> requested, resolved |-> resolved,
     lang |-> "", msgKey |-> "", templateIssue |-> ""]
evtLanguageMissing(lang) ==
    [kind |-> "LanguageMissing", requested |-> "", resolved |-> "",
     lang |-> lang, msgKey |-> "", templateIssue |-> ""]
evtMessageMissing(lang, msgKey) ==
    [kind |-> "MessageMissing", requested |-> "", resolved |-> "",
     lang |-> lang, msgKey |-> msgKey, templateIssue |-> ""]
evtTemplateIssue(lang, msgKey, issue) ==
    [kind |-> "TemplateIssue", requested |-> "", resolved |-> "",
     lang |-> lang, msgKey |-> msgKey, templateIssue |-> issue]

\* the counter map and the key the onXxx handler of an event increments
statMapOf(evt) ==
    IF evt.kind = "LanguageFallback" THEN "languageFallbacks"
    ELSE IF evt.kind = "LanguageMissing" THEN "missingLanguages"
    ELSE IF evt.kind = "MessageMissing" THEN "missingMessages"
    ELSE "templateIssues"

statKeyOf(evt) ==
    IF evt.kind = "LanguageFallback" THEN languageFallbackKey(evt.requested, evt.resolved)
    ELSE IF evt.kind = "LanguageMissing" THEN missingLanguageKey(evt.lang)
    ELSE IF evt.kind = "MessageMissing" THEN missingMessageKey(evt.lang, evt.msgKey)
    ELSE templateIssueKey(evt.lang, evt.msgKey, evt.templateIssue)

RECURSIVE issueEvents(_, _, _)
issueEvents(lang, msgKey, issues) ==
    IF issues = <<>> THEN <<>>
    ELSE <<evtTemplateIssue(lang, msgKey, Head(issues))>>
         \o issueEvents(lang, msgKey, Tail(issues))

(***************************************************************************)
(* NewMessageCatalog: the state after construction                         *)
(***************************************************************************)
Init ==
    /\ cfg = Config
    /\ \E files \in InitialDirContents : dir = [exists |-> TRUE, files |-> files, ver |-> 0]
    /\ clock = 1
    /\ messages = readMessagesFromYaml(dir).messages
    /\ runtimeMessages = EmptyMap
    /\ stats = [emptyStats EXCEPT !.lastReloadAt = 1]
    /\ mu = 0
    /\ observerCh = IF cfg.Observer THEN "ch" ELSE "nil"
    /\ chan = [closed |-> FALSE, buf |-> <<>>]
    /\ observerDone = IF cfg.Observer THEN "open" ELSE "nil"
    /\ worker = [pc |-> IF cfg.Observer THEN "recv" ELSE "none", evt |-> NoRet,
                 last |-> "none"]
    /\ th = [t \in Threads |-> idleThread]
    /\ hist = [ops |-> 0, writes |-> 0, loaded |-> EmptyMap, ver |-> 0,
               counted |-> {}, wiped |-> FALSE]

\* A goroutine may start a facade call.  Goroutines are interchangeable, so
\* the one with the least number among those not yet used calls first.
CanCall(t) ==
    /\ th[t].pc = "idle"
    /\ hist.ops < MaxOps
    /\ \A u \in Threads : u < t => th[u].op # "none"

Called == [hist EXCEPT !.ops = @ + 1]

(***************************************************************************)
(* GetMessageWithCtx                                                       *)
(***************************************************************************)
\* the goroutine after the handler of the first pending event has finished
afterEvent(r) ==
    IF Len(r.pending) > 1
    THEN [r EXCEPT !.pending = Tail(r.pending), !.pc = "on_inc", !.reason = "",
                   !.stale = FALSE]
    ELSE IF r.cont = "return"
         THEN returned("Get", [kind |-> "message", msg |-> r.msg, key |-> r.msgKey,
                               requested |-> r.requestedLang, resolved |-> r.resolvedLang,
                               handlers |-> r.handlers])
    ELSE [r EXCEPT !.pending = <<>>, !.pc = r.cont, !.reason = "", !.stale = FALSE]

\* the goroutine about to run the handlers of events, then to go on at cont;
\* handlers keeps the events whose handlers the request has called, and the
\* result keeps it with the requested and the resolved tag
emit(r, events, cont) ==
    IF events = <<>>
    THEN afterEvent([r EXCEPT !.pending = <<>>, !.cont = cont])
    ELSE [r EXCEPT !.pending = events, !.cont = cont, !.pc = "on_inc", !.stale = FALSE,
                   !.handlers = @ \o events]

GetStart(t) ==
    /\ CanCall(t)
    /\ \E req \in Requests :
          th' = [th EXCEPT ![t] = [idleThread EXCEPT !.op = "Get", !.pc = "get_resolve",
                                      !.ctx = req.ctx, !.msgKey = req.msgKey,
                                      !.params = req.params]]
    /\ hist' = Called
    /\ UNCHANGED <<cfg, dir, clock, messages, runtimeMessages, stats, mu, observerCh,
                   chan, observerDone, worker>>

\* lines 856-869: resolveRequestedLang, then resolveLanguage under the read lock
GetResolve(t) ==
    /\ th[t].pc = "get_resolve"
    /\ mu = 0
    /\ LET r == th[t]
           requestedLang == resolveRequestedLang(cfg, r.ctx)
           res == resolveLanguage(cfg, messages, requestedLang)
           r1 == [r EXCEPT !.requestedLang = requestedLang, !.resolvedLang = res.lang]
       IN th' = [th EXCEPT ![t] =
                  IF ~res.found
                  THEN emit([r1 EXCEPT !.msg = missingLanguageMessage(requestedLang, r.msgKey)],
                            <<evtLanguageMissing(requestedLang)>>, "return")
                  ELSE IF res.usedFallback
                  THEN emit(r1, <<evtLanguageFallback(requestedLang, res.lang)>>, "get_lookup")
                  ELSE [r1 EXCEPT !.pc = "get_lookup"]]
    /\ UNCHANGED <<cfg, dir, clock, messages, runtimeMessages, stats, mu, observerCh,
                   chan, observerDone, worker, hist>>

\* lines 871-926: the entry is chosen under the read lock; rendering reads
\* only the goroutine's own copies, so its result is fixed here, and the
\* handlers of its events run in the steps that follow
GetLookup(t) ==
    /\ th[t].pc = "get_lookup"
    /\ mu = 0
    /\ LET r == th[t] IN
       th' = [th EXCEPT ![t] =
          IF r.resolvedLang \notin DOMAIN messages
          THEN emit([r EXCEPT !.msg = missingLanguageMessage(r.requestedLang, r.msgKey)],
                    <<evtLanguageMissing(r.requestedLang)>>, "return")
          ELSE LET e == selectEntry(messages[r.resolvedLang], r.resolvedLang, r.msgKey, r.params)
                   short == renderTemplate(r.resolvedLang, e.shortMessage, r.params,
                                           cfg.StrictTemplates)
                   long == renderTemplate(r.resolvedLang, e.longMessage, r.params,
                                          cfg.StrictTemplates)
               IN emit([r EXCEPT !.msg = [ShortText |-> short.text, LongText |-> long.text,
                                          Code |-> e.code, Key |-> r.msgKey]],
                       (IF e.missingMessage
                        THEN <<evtMessageMissing(r.resolvedLang, r.msgKey)>> ELSE <<>>)
                       \o issueEvents(r.resolvedLang, r.msgKey, short.issues \o long.issues),
                       "return")]
    /\ UNCHANGED <<cfg, dir, clock, messages, runtimeMessages, stats, mu, observerCh,
                   chan, observerDone, worker, hist>>

(***************************************************************************)
(* onLanguageFallback / onLanguageMissing / onMessageMissing /             *)
(* onTemplateIssue: the stats increment, then publishObserverEvent         *)
(***************************************************************************)
\* a handler that goes on to publishObserverEvent without the increment
uncounted(name, key) == stats

\* the registry after increment(s.<name>, key) on the registry's own map
counted(name, key) == [stats EXCEPT ![name] = increment(@, key, cfg.StatsMaxKeys)]

\* line 606 of publishObserverEvent: no sink or no channel, nothing is sent
published(r) ==
    IF ~cfg.Observer \/ observerCh = "nil" THEN afterEvent(r)
    ELSE [r EXCEPT !.pc = "pub_send", !.stale = FALSE]

\* incrementXxx, then line 606; hist.counted keeps the events whose increment
\* the registry has taken since the last ResetStats
OnInc(t) ==
    /\ th[t].pc = "on_inc"
    /\ stats' = counted(statMapOf(Head(th[t].pending)), statKeyOf(Head(th[t].pending)))
    /\ th' = [th EXCEPT ![t] = published(th[t])]
    /\ hist' = [hist EXCEPT !.counted = @ \cup {Head(th[t].pending)}]
    /\ UNCHANGED <<cfg, dir, clock, messages, runtimeMessages, mu, observerCh, chan,
                   observerDone, worker>>

\* The argument s.<map> of increment is read before increment takes stats.mu.
\* When reset replaced the maps in between, the map incremented is no longer
\* the registry's.
OnIncLost(t) ==
    /\ th[t].pc = "on_inc"
    /\ th[t].stale
    /\ th' = [th EXCEPT ![t] = published(th[t])]
    /\ UNCHANGED <<cfg, dir, clock, messages, runtimeMessages, stats, mu, observerCh,
                   chan, observerDone, worker, hist>>

\* a channel that takes one event more than its capacity
hasRoomOneMore(ch, config) == Len(ch.buf) <= config.ObserverBuffer

\* a send on the channel of make(chan observerEvent, ObserverBuffer) is ready
hasRoom(ch, config) == Len(ch.buf) < config.ObserverBuffer

\* the select of line 614 on an open channel with room: the event is queued
PubSendQueued(t) ==
    /\ th[t].pc = "pub_send"
    /\ observerCh = "ch" /\ ~chan.closed /\ hasRoom(chan, cfg)
    /\ chan' = [chan EXCEPT !.buf = Append(@, Head(th[t].pending))]
    /\ th' = [th EXCEPT ![t] = afterEvent(th[t])]
    /\ UNCHANGED <<cfg, dir, clock, messages, runtimeMessages, stats, mu, observerCh,
                   observerDone, worker, hist>>

\* what the goroutine does once the send has failed for `reason`
dropped(r, reason) == [r EXCEPT !.pc = "drop_inc", !.reason = reason, !.stale = FALSE]

\* the select on an open channel whose buffer is full: the default case
PubSendFull(t) ==
    /\ th[t].pc = "pub_send"
    /\ observerCh = "ch" /\ ~chan.closed /\ ~hasRoom(chan, cfg)
    /\ th' = [th EXCEPT ![t] = dropped(th[t], "observer_queue_full")]
    /\ UNCHANGED <<cfg, dir, clock, messages, runtimeMessages, stats, mu, observerCh,
                   chan, observerDone, worker, hist>>

\* publishObserverEvent without its deferred recover: the panic of the send
\* leaves GetMessageWithCtx
unrecovered(r) == [r EXCEPT !.pc = "panicked"]

\* what the deferred recover of line 609 makes of the panic of a send on a
\* closed channel
recovered(r) == dropped(r, "observer_closed")

\* The channel was closed by Close.  dmc.observerCh is read without the lock:
\* while Close has not yet cleared the field, and also afterwards if the
\* select uses the value line 606 read, the send panics and is recovered.
PubSendClosed(t) ==
    /\ th[t].pc = "pub_send"
    /\ chan.closed
    /\ th' = [th EXCEPT ![t] = recovered(th[t])]
    /\ UNCHANGED <<cfg, dir, clock, messages, runtimeMessages, stats, mu, observerCh,
                   chan, observerDone, worker, hist>>

\* Close cleared the field after line 606 read it and the select reads it
\* again: a send on a nil channel is never ready, the default case runs
PubSendNil(t) ==
    /\ th[t].pc = "pub_send"
    /\ observerCh = "nil"
    /\ th' = [th EXCEPT ![t] = dropped(th[t], "observer_queue_full")]
    /\ UNCHANGED <<cfg, dir, clock, messages, runtimeMessages, stats, mu, observerCh,
                   chan, observerDone, worker, hist>>

\* incrementDroppedEvent(reason)
DropInc(t) ==
    /\ th[t].pc = "drop_inc"
    /\ stats' = counted("droppedEvents", th[t].reason)
    /\ th' = [th EXCEPT ![t] = afterEvent(th[t])]
    /\ UNCHANGED <<cfg, dir, clock, messages, runtimeMessages, mu, observerCh, chan,
                   observerDone, worker, hist>>

\* s.droppedEvents was read before reset replaced it
DropIncLost(t) ==
    /\ th[t].pc = "drop_inc"
    /\ th[t].stale
    /\ th' = [th EXCEPT ![t] = afterEvent(th[t])]
    /\ UNCHANGED <<cfg, dir, clock, messages, runtimeMessages, stats, mu, observerCh,
                   chan, observerDone, worker, hist>>

(***************************************************************************)
(* LoadMessages                                                            *)
(***************************************************************************)
LoadStart(t) ==
    /\ CanCall(t)
    /\ \E call \in LoadCalls :
          th' = [th EXCEPT ![t] = [idleThread EXCEPT !.op = "LoadMessages", !.pc = "ld_lock",
                                      !.lang = call.lang, !.batch = call.batch]]
    /\ hist' = Called
    /\ UNCHANGED <<cfg, dir, clock, messages, runtimeMessages, stats, mu, observerCh,
                   chan, observerDone, worker>>

\* the entries a successful LoadMessages(lang, batch) adds to the history
RECURSIVE accepted(_, _, _)
accepted(loaded, lang, batch) ==
    IF batch = <<>> THEN loaded
    ELSE accepted(Put(loaded, <<lang, Head(batch).Key>>, normalizedMessage(Head(batch))),
                  lang, Tail(batch))

\* the whole body runs under dmc.mu.Lock
LoadRun(t) ==
    /\ th[t].pc = "ld_lock"
    /\ mu = 0
    /\ LET r == th[t]
           res == loadMessages(messages, runtimeMessages, r.lang, r.batch)
       IN /\ messages' = res.messages
          /\ runtimeMessages' = res.runtime
          /\ hist' = IF res.ok
                     THEN [hist EXCEPT !.loaded = accepted(@, normalizeLangTag(r.lang), r.batch)]
                     ELSE hist
          /\ th' = [th EXCEPT ![t] = returned("LoadMessages",
                                       [kind |-> "load", ok |-> res.ok,
                                        lang |-> normalizeLangTag(r.lang), batch |-> r.batch])]
    /\ UNCHANGED <<cfg, dir, clock, stats, mu, observerCh, chan, observerDone, worker>>

(***************************************************************************)
(* Reload = loadFromYaml                                                   *)
(***************************************************************************)
ReloadStart(t) ==
    /\ CanCall(t)
    /\ th' = [th EXCEPT ![t] = [idleThread EXCEPT !.op = "Reload", !.pc = "rl_read"]]
    /\ hist' = Called
    /\ UNCHANGED <<cfg, dir, clock, messages, runtimeMessages, stats, mu, observerCh,
                   chan, observerDone, worker>>

\* a retry loop that makes one attempt more
retriesOneMore(config) == config.ReloadRetries + 1

\* readMessagesFromYamlWithRetry: the number of attempts after the first
retries(config) == IF config.ReloadRetries < 0 THEN 0 ELSE config.ReloadRetries

\* loadFromYaml going on to the swap after the last attempt failed
afterAttemptPublishes(r, d) ==
    LET res == readMessagesFromYaml(d) IN
    IF res.ok THEN [r EXCEPT !.pc = "rl_swap", !.read = res.messages, !.readVer = d.ver,
                             !.readLoads = Cardinality(DOMAIN hist.loaded)]
    ELSE IF r.attempt < retries(cfg) THEN [r EXCEPT !.attempt = @ + 1]
    ELSE [r EXCEPT !.pc = "rl_swap", !.read = EmptyMap, !.readVer = d.ver]

\* the goroutine after one attempt of the retry loop read the directory d
afterAttempt(r, d) ==
    LET res == readMessagesFromYaml(d) IN
    IF res.ok THEN [r EXCEPT !.pc = "rl_swap", !.read = res.messages, !.readVer = d.ver,
                             !.readLoads = Cardinality(DOMAIN hist.loaded)]
    ELSE IF r.attempt < retries(cfg) THEN [r EXCEPT !.attempt = @ + 1]
    ELSE returned("Reload", [kind |-> "reload", ok |-> FALSE, ver |-> d.ver,
                             readLoads |-> 0, swapLoads |-> 0,
                             attempts |-> r.attempt + 1])

\* one attempt of the retry loop; dmc.mu is not held
ReloadRead(t) ==
    /\ th[t].pc = "rl_read"
    /\ th' = [th EXCEPT ![t] = afterAttempt(th[t], dir)]
    /\ UNCHANGED <<cfg, dir, clock, messages, runtimeMessages, stats, mu, observerCh,
                   chan, observerDone, worker, hist>>

\* lines 245-265: under dmc.mu.Lock the merge is published and lastReloadAt
\* is set from NowFn
ReloadSwap(t) ==
    /\ th[t].pc = "rl_swap"
    /\ mu = 0
    /\ messages' = mergeRuntime(th[t].read, runtimeMessages)
    /\ clock' = clock + 1
    /\ stats' = [stats EXCEPT !.lastReloadAt = clock']
    /\ hist' = [hist EXCEPT !.ver = th[t].readVer]
    /\ th' = [th EXCEPT ![t] =
                returned("Reload", [kind |-> "reload", ok |-> TRUE, ver |-> th[t].readVer,
                                    readLoads |-> th[t].readLoads,
                                    swapLoads |-> Cardinality(DOMAIN hist.loaded),
                                    attempts |-> th[t].attempt + 1])]
    /\ UNCHANGED <<cfg, dir, runtimeMessages, mu, observerCh, chan, observerDone,
                   worker>>

(***************************************************************************)
(* Close = stopObserverWorker under dmc.mu.Lock                            *)
(***************************************************************************)
CloseStart(t) ==
    /\ CanCall(t)
    /\ th' = [th EXCEPT ![t] = [idleThread EXCEPT !.op = "Close", !.pc = "cl_lock"]]
    /\ hist' = Called
    /\ UNCHANGED <<cfg, dir, clock, messages, runtimeMessages, stats, mu, observerCh,
                   chan, observerDone, worker>>

\* Lock; no observer channel: return at line 597
CloseNoObserver(t) ==
    /\ th[t].pc = "cl_lock"
    /\ mu = 0
    /\ observerCh = "nil"
    /\ th' = [th EXCEPT ![t] = returned("Close", [kind |-> "closed", queued |-> 0])]
    /\ UNCHANGED <<cfg, dir, clock, messages, runtimeMessages, stats, mu, observerCh,
                   chan, observerDone, worker, hist>>

\* Lock; close(dmc.observerCh); the lock stays held while line 600 waits.
\* close of a channel that is closed already panics, and the deferred Unlock
\* runs.
CloseChannel(t) ==
    /\ th[t].pc = "cl_lock"
    /\ mu = 0
    /\ observerCh = "ch"
    /\ mu' = IF chan.closed THEN 0 ELSE t
    /\ chan' = [chan EXCEPT !.closed = TRUE]
    /\ th' = IF chan.closed
             THEN [th EXCEPT ![t].pc = "panicked"]
             ELSE [th EXCEPT ![t].pc = "cl_wait",
                             ![t].ret = [kind |-> "closing", queued |-> Len(chan.buf)]]
    /\ UNCHANGED <<cfg, dir, clock, messages, runtimeMessages, stats, observerCh,
                   observerDone, worker, hist>>

\* a Close that does not wait for the consumer
consumerNotAwaited(done) == done # "nil"

\* <-dmc.observerDone is ready: the consumer has closed the channel
consumerDone(done) == done = "closed"

\* a stopObserverWorker that leaves the closed channel in dmc.observerCh
stoppedChannelKept == "ch"

\* line 601: dmc.observerCh after stopObserverWorker
stoppedChannel == "nil"

\* <-dmc.observerDone returned: both fields are cleared and the lock released
CloseFinish(t) ==
    /\ th[t].pc = "cl_wait"
    /\ consumerDone(observerDone)
    /\ observerCh' = stoppedChannel
    /\ observerDone' = "nil"
    /\ mu' = 0
    /\ th' = [th EXCEPT ![t] = returned("Close", [kind |-> "closed",
                                                  queued |-> th[t].ret.queued])]
    /\ UNCHANGED <<cfg, dir, clock, messages, runtimeMessages, stats, chan, worker,
                   hist>>

(***************************************************************************)
(* ResetStats                                                              *)
(***************************************************************************)
\* catalogStats.reset replaces the five maps: a goroutine on its way to an
\* increment may already have read the map field it is about to increment
overtaken(r) == IF r.pc \in {"on_inc", "drop_inc"} THEN [r EXCEPT !.stale = TRUE] ELSE r

ResetStats(t) ==
    /\ CanCall(t)
    /\ stats' = emptyStats
    /\ th' = [u \in Threads |-> IF u = t THEN returned("ResetStats", [kind |-> "reset"])
                                ELSE overtaken(th[u])]
    /\ hist' = [Called EXCEPT !.counted = {}, !.wiped = TRUE]
    /\ UNCHANGED <<cfg, dir, clock, messages, runtimeMessages, mu, observerCh, chan,
                   observerDone, worker>>

(***************************************************************************)
(* The consumer goroutine of startObserverWorker                           *)
(***************************************************************************)
\* for evt := range dmc.observerCh: the next event is taken and the sink called
WorkerRecv ==
    /\ worker.pc = "recv"
    /\ chan.buf # <<>>
    /\ worker' = [worker EXCEPT !.pc = "sink", !.evt = Head(chan.buf)]
    /\ chan' = [chan EXCEPT !.buf = Tail(@)]
    /\ UNCHANGED <<cfg, dir, clock, messages, runtimeMessages, stats, mu, observerCh,
                   observerDone, th, hist>>

\* the consumer once the sink call of safeObserverCall has ended
afterSinkCall(w) == [pc |-> "recv", evt |-> NoRet, last |-> "return"]

\* safeObserverCall without its recover: the panic ends the consumer
sinkPanicEscapes(w) == [pc |-> "crashed", evt |-> w.evt, last |-> "panic"]

\* what safeObserverCall makes of a panic of the sink
afterSinkPanic(w) == [afterSinkCall(w) EXCEPT !.last = "panic"]

SinkReturn ==
    /\ worker.pc = "sink"
    /\ worker' = afterSinkCall(worker)
    /\ UNCHANGED <<cfg, dir, clock, messages, runtimeMessages, stats, mu, observerCh,
                   chan, observerDone, th, hist>>

SinkPanic ==
    /\ worker.pc = "sink"
    /\ worker' = afterSinkPanic(worker)
    /\ UNCHANGED <<cfg, dir, clock, messages, runtimeMessages, stats, mu, observerCh,
                   chan, observerDone, th, hist>>

\* the sink call never returns
SinkHang ==
    /\ worker.pc = "sink"
    /\ worker' = [worker EXCEPT !.pc = "hung", !.last = "hang"]
    /\ UNCHANGED <<cfg, dir, clock, messages, runtimeMessages, stats, mu, observerCh,
                   chan, observerDone, th, hist>>

\* the range loop ends on a closed, drained channel; defer close(observerDone)
WorkerExit ==
    /\ worker.pc = "recv"
    /\ chan.closed /\ chan.buf = <<>>
    /\ worker' = [worker EXCEPT !.pc = "done"]
    /\ observerDone' = "closed"
    /\ UNCHANGED <<cfg, dir, clock, messages, runtimeMessages, stats, mu, observerCh,
                   chan, th, hist>>

(***************************************************************************)
(* The environment edits the source directory                              *)
(***************************************************************************)
DiskWrite ==
    /\ hist.writes < MaxDiskWrites
    /\ \E files \in DirContents \ {dir.files} :
          dir' = [exists |-> TRUE, files |-> files, ver |-> dir.ver + 1]
    /\ hist' = [hist EXCEPT !.writes = @ + 1]
    /\ UNCHANGED <<cfg, clock, messages, runtimeMessages, stats, mu, observerCh, chan,
                   observerDone, worker, th>>

Next ==
    \/ \E t \in Threads :
          \/ GetStart(t) \/ GetResolve(t) \/ GetLookup(t)
          \/ OnInc(t) \/ OnIncLost(t)
          \/ PubSendQueued(t) \/ PubSendFull(t) \/ PubSendClosed(t) \/ PubSendNil(t)
          \/ DropInc(t) \/ DropIncLost(t)
          \/ LoadStart(t) \/ LoadRun(t)
          \/ ReloadStart(t) \/ ReloadRead(t) \/ ReloadSwap(t)
          \/ CloseStart(t) \/ CloseNoObserver(t) \/ CloseChannel(t) \/ CloseFinish(t)
          \/ ResetStats(t)
    \/ WorkerRecv \/ SinkReturn \/ SinkPanic \/ SinkHang \/ WorkerExit
    \/ DiskWrite

Spec == Init /\ [][Next]_vars

(***************************************************************************)
(* The statistics registry on its own: a registry with cap StatsMaxKeys    *)
(* and the increments the handlers make through the incrementXxx wrappers  *)
(***************************************************************************)
StatLangs == {"fr", "de", " "}
StatMsgKeys == {"hello", "sys.a"}
StatIssues == {"simple_missing_param_name"}
DropReasons == {"observer_queue_full", "observer_closed"}

InitStats ==
    /\ \E cap \in 1..MaxStatsCap : cfg = [Config EXCEPT !.StatsMaxKeys = cap]
    /\ dir = [exists |-> TRUE, files |-> Files1, ver |-> 0]
    /\ clock = 1
    /\ messages = readMessagesFromYaml(dir).messages
    /\ runtimeMessages = EmptyMap
    /\ stats = [emptyStats EXCEPT !.lastReloadAt = 1]
    /\ mu = 0
    /\ observerCh = "ch"
    /\ chan = [closed |-> FALSE, buf |-> <<>>]
    /\ observerDone = "open"
    /\ worker = [pc |-> "recv", evt |-> NoRet, last |-> "none"]
    /\ th = [t \in Threads |-> idleThread]
    /\ hist = [events |-> 0, map |-> "", key |-> ""]

\* the history after s.increment(s.<name>, key)
latest(name, key) == [events |-> hist.events + 1, map |-> name, key |-> key]

IncrementLanguageFallback ==
    /\ hist.events < MaxStatEvents
    /\ \E requestedLang \in {"fr", "de"} :
          /\ stats' = counted("languageFallbacks", languageFallbackKey(requestedLang, "en"))
          /\ hist' = latest("languageFallbacks", languageFallbackKey(requestedLang, "en"))
    /\ UNCHANGED <<cfg, dir, clock, messages, runtimeMessages, mu, observerCh, chan,
                   observerDone, worker, th>>

IncrementMissingLanguage ==
    /\ hist.events < MaxStatEvents
    /\ \E lang \in StatLangs :
          /\ stats' = counted("missingLanguages", missingLanguageKey(lang))
          /\ hist' = latest("missingLanguages", missingLanguageKey(lang))
    /\ UNCHANGED <<cfg, dir, clock, messages, runtimeMessages, mu, observerCh, chan,
                   observerDone, worker, th>>

IncrementMissingMessage ==
    /\ hist.events < MaxStatEvents
    /\ \E lang \in {"en", "es"}, msgKey \in StatMsgKeys :
          /\ stats' = counted("missingMessages", missingMessageKey(lang, msgKey))
          /\ hist' = latest("missingMessages", missingMessageKey(lang, msgKey))
    /\ UNCHANGED <<cfg, dir, clock, messages, runtimeMessages, mu, observerCh, chan,
                   observerDone, worker, th>>

IncrementTemplateIssue ==
    /\ hist.events < MaxStatEvents
    /\ \E msgKey \in StatMsgKeys, issue \in StatIssues :
          /\ stats' = counted("templateIssues", templateIssueKey("en", msgKey, issue))
          /\ hist' = latest("templateIssues", templateIssueKey("en", msgKey, issue))
    /\ UNCHANGED <<cfg, dir, clock, messages, runtimeMessages, mu, observerCh, chan,
                   observerDone, worker, th>>

IncrementDroppedEvent ==
    /\ hist.events < MaxStatEvents
    /\ \E reason \in DropReasons :
          /\ stats' = counted("droppedEvents", reason)
          /\ hist' = latest("droppedEvents", reason)
    /\ UNCHANGED <<cfg, dir, clock, messages, runtimeMessages, mu, observerCh, chan,
                   observerDone, worker, th>>

NextStats ==
    \/ IncrementLanguageFallback \/ IncrementMissingLanguage \/ IncrementMissingMessage
    \/ IncrementTemplateIssue \/ IncrementDroppedEvent

SpecStats == InitStats /\ [][NextStats]_vars

(***************************************************************************)
(* Language resolution on its own: a fixed catalog and configuration, and  *)
(* the resolution GetMessageWithCtx makes for a context                    *)
(***************************************************************************)
ResolveDefaults == {"en", " ", "FR"}
ResolveFallbacks == {<<>>, <<"es">>, <<"pt_BR", "es">>}
ResolveLangs == {"en", "es", "fr", "pt-br"}
ResolveContexts ==
    {CtxNil, CtxLang("es-AR"), CtxLang(" PT_br"), CtxLang(""), CtxLang("de"),
     [nil |-> FALSE, typed |-> Value("fr-CA"), plain |-> Value("es")]}

InitResolve ==
    /\ \E d \in ResolveDefaults, f \in ResolveFallbacks :
          cfg = [Config EXCEPT !.DefaultLanguage = d, !.FallbackLanguages = f]
    /\ dir = [exists |-> TRUE, files |-> Files1, ver |-> 0]
    /\ clock = 1
    /\ \E langs \in SUBSET ResolveLangs : messages = [l \in langs |-> skeletonMessages]
    /\ runtimeMessages = EmptyMap
    /\ stats = [emptyStats EXCEPT !.lastReloadAt = 1]
    /\ mu = 0
    /\ observerCh = "ch"
    /\ chan = [closed |-> FALSE, buf |-> <<>>]
    /\ observerDone = "open"
    /\ worker = [pc |-> "recv", evt |-> NoRet, last |-> "none"]
    /\ th = [t \in Threads |-> idleThread]
    /\ hist = [requests |-> 0, requested |-> "", result |-> NoRet]

\* lines 856-857 of GetMessageWithCtx
ResolveRequest ==
    /\ hist.requests < MaxResolves
    /\ \E ctx \in ResolveContexts :
          hist' = [requests |-> hist.requests + 1,
                   requested |-> resolveRequestedLang(cfg, ctx),
                   result |-> resolveLanguage(cfg, messages, resolveRequestedLang(cfg, ctx))]
    /\ UNCHANGED <<cfg, dir, clock, messages, runtimeMessages, stats, mu, observerCh,
                   chan, observerDone, worker, th>>

NextResolve == ResolveRequest

SpecResolve == InitResolve /\ [][NextResolve]_vars

(***************************************************************************)
(* LoadMessages on its own: a catalog as constructed, and calls with any   *)
(* language and batch                                                      *)
(***************************************************************************)
\* sys.a again, with other texts
SysA2 == Msg("sys.a", "Up", "All good", "200")
NoKey == Msg("", "x", "", "")
\* has the prefix, does not match messageKeyRegex
BadKey == Msg("sys.a b", "x", "", "")

LoadLangs == {"en", " PT_br ", "  "}
LoadEntries == {SysA, SysA2, SysB, NoPrefix, NoKey, BadKey}
LoadBatches == UNION {[1..n -> LoadEntries] : n \in 0..MaxBatch}

InitLoad ==
    /\ cfg = Config
    /\ \E files \in {Files1, Files2} : dir = [exists |-> TRUE, files |-> files, ver |-> 0]
    /\ clock = 1
    /\ messages = readMessagesFromYaml(dir).messages
    /\ runtimeMessages = EmptyMap
    /\ stats = [emptyStats EXCEPT !.lastReloadAt = 1]
    /\ mu = 0
    /\ observerCh = "ch"
    /\ chan = [closed |-> FALSE, buf |-> <<>>]
    /\ observerDone = "open"
    /\ worker = [pc |-> "recv", evt |-> NoRet, last |-> "none"]
    /\ th = [t \in Threads |-> idleThread]
    /\ hist = [loads |-> 0, lang |-> "", batch |-> <<>>, ok |-> TRUE,
               before |-> messages, beforeRuntime |-> runtimeMessages]

\* one call of LoadMessages, start to return
LoadMessages ==
    /\ hist.loads < MaxLoads
    /\ \E lang \in LoadLangs, batch \in LoadBatches :
          /\ messages' = loadMessages(messages, runtimeMessages, lang, batch).messages
          /\ runtimeMessages' = loadMessages(messages, runtimeMessages, lang, batch).runtime
          /\ hist' = [loads |-> hist.loads + 1, lang |-> lang, batch |-> batch,
                      ok |-> loadMessages(messages, runtimeMessages, lang, batch).ok,
                      before |-> messages, beforeRuntime |-> runtimeMessages]
    /\ UNCHANGED <<cfg, dir, clock, stats, mu, observerCh, chan, observerDone, worker, th>>

NextLoad == LoadMessages

SpecLoad == InitLoad /\ [][NextLoad]_vars

(***************************************************************************)
(* Requests on their own: a fixed catalog and configuration, and calls of  *)
(* GetMessageWithCtx one after the other while the consumer is not         *)
(* scheduled                                                               *)
(***************************************************************************)
\* lines 884-926 for a language that exists: the message and the events of
\* the handlers called, in the order of the calls
lookup(config, langMsgSet, resolvedLang, msgKey, params, e, short, long) ==
    [msg |-> [ShortText |-> short.text, LongText |-> long.text, Code |-> e.code,
              Key |-> msgKey],
     events |-> (IF e.missingMessage THEN <<evtMessageMissing(resolvedLang, msgKey)>>
                 ELSE <<>>)
                \o issueEvents(resolvedLang, msgKey, short.issues \o long.issues)]

\* lines 867-926, once resolveLanguage found the language res.lang
found(config, msgs, requestedLang, res, msgKey, params, e) ==
    [lookup(config, msgs[res.lang], res.lang, msgKey, params, e,
            renderTemplate(res.lang, e.shortMessage, params, config.StrictTemplates),
            renderTemplate(res.lang, e.longMessage, params, config.StrictTemplates))
     EXCEPT !.events = (IF res.usedFallback
                        THEN <<evtLanguageFallback(requestedLang, res.lang)>> ELSE <<>>)
                       \o @]

\* lines 857-926, for the requested language of line 856
resolved(config, msgs, requestedLang, res, msgKey, params) ==
    IF ~res.found
    THEN [msg |-> missingLanguageMessage(requestedLang, msgKey),
          events |-> <<evtLanguageMissing(requestedLang)>>]
    ELSE found(config, msgs, requestedLang, res, msgKey, params,
               selectEntry(msgs[res.lang], res.lang, msgKey, params))

\* GetMessageWithCtx with no other call running: its result and the events
\* of its handlers
getMessageWithCtx(config, msgs, ctx, msgKey, params) ==
    resolved(config, msgs, resolveRequestedLang(config, ctx),
             resolveLanguage(config, msgs, resolveRequestedLang(config, ctx)),
             msgKey, params)

\* publishObserverEvent(evt) on an open channel: the registry and the buffer
sent(st, buf, evt, config) ==
    IF ~config.Observer THEN [stats |-> st, buf |-> buf]
    ELSE IF Len(buf) < config.ObserverBuffer THEN [stats |-> st, buf |-> Append(buf, evt)]
    ELSE [stats |-> [st EXCEPT !.droppedEvents =
                        increment(@, "observer_queue_full", config.StatsMaxKeys)],
          buf |-> buf]

\* onXxx for each event in turn: the increment, then publishObserverEvent
RECURSIVE handled(_, _, _, _)
handled(st, buf, events, config) ==
    IF events = <<>> THEN [stats |-> st, buf |-> buf]
    ELSE LET one == sent([st EXCEPT ![statMapOf(Head(events))] =
                             increment(@, statKeyOf(Head(events)), config.StatsMaxKeys)],
                         buf, Head(events), config)
         IN handled(one.stats, one.buf, Tail(events), config)

\* the catalogs of the directories, and en with a runtime language added
GetCatalogs ==
    {readMessagesFromYaml([exists |-> TRUE, files |-> f]).messages :
        f \in {Files1, Files2, Files4}}
    \cup {loadMessages(readMessagesFromYaml([exists |-> TRUE, files |-> Files1]).messages,
                       EmptyMap, "pt-br", <<SysB>>).messages}

GetFallbacks == {<<>>, <<"es">>}

GetRequests ==
    {[ctx |-> CtxNil, msgKey |-> "hello", params |-> NoParams],
     [ctx |-> CtxNil, msgKey |-> "nope", params |-> SomeParams],
     [ctx |-> CtxNil, msgKey |-> "nope ", params |-> NoParams],
     [ctx |-> CtxLang("es-AR"), msgKey |-> "sys.a", params |-> SomeParams],
     [ctx |-> CtxLang("fr"), msgKey |-> "hello", params |-> NoParams],
     [ctx |-> CtxLang(""), msgKey |-> "other", params |-> NoParams],
     [ctx |-> CtxLang("PT_br"), msgKey |-> "sys.b", params |-> SomeParams]}

InitGet ==
    /\ \E f \in GetFallbacks, strict \in BOOLEAN :
          cfg = [Config EXCEPT !.FallbackLanguages = f, !.StrictTemplates = strict]
    /\ dir = [exists |-> TRUE, files |-> Files1, ver |-> 0]
    /\ clock = 1
    /\ messages \in GetCatalogs
    /\ runtimeMessages = EmptyMap
    /\ stats = [emptyStats EXCEPT !.lastReloadAt = 1]
    /\ mu = 0
    /\ observerCh = "ch"
    /\ chan = [closed |-> FALSE, buf |-> <<>>]
    /\ observerDone = "open"
    /\ worker = [pc |-> "recv", evt |-> NoRet, last |-> "none"]
    /\ th = [t \in Threads |-> idleThread]
    /\ hist = [gets |-> 0, ctx |-> CtxNil, msgKey |-> "", params |-> NoParams,
               msg |-> NoRet, events |-> <<>>, before |-> stats]

\* one call of GetMessageWithCtx, start to return
GetMessageWithCtx ==
    /\ hist.gets < MaxGets
    /\ \E req \in GetRequests :
          LET out == getMessageWithCtx(cfg, messages, req.ctx, req.msgKey, req.params)
              after == handled(stats, chan.buf, out.events, cfg)
          IN /\ stats' = after.stats
             /\ chan' = [chan EXCEPT !.buf = after.buf]
             /\ hist' = [gets |-> hist.gets + 1, ctx |-> req.ctx, msgKey |-> req.msgKey,
                         params |-> req.params, msg |-> out.msg, events |-> out.events,
                         before |-> stats]
    /\ UNCHANGED <<cfg, dir, clock, messages, runtimeMessages, mu, observerCh,
                   observerDone, worker, th>>

NextGet == GetMessageWithCtx

SpecGet == InitGet /\ [][NextGet]_vars

(***************************************************************************)
(* Reload on its own: catalogs configured with any number of retries, and  *)
(* a directory that is edited between the attempts                         *)
(***************************************************************************)
\* the ReloadRetries a Config is given
ConfiguredRetries == {-1, 0, 2}

\* NewMessageCatalog, lines 1006-1008
defaultReloadRetries(n) == IF n < 0 THEN 0 ELSE n

InitReload ==
    /\ \E n \in ConfiguredRetries :
          /\ cfg = [Config EXCEPT !.ReloadRetries = defaultReloadRetries(n)]
          /\ hist = [ops |-> 0, writes |-> 0, loaded |-> EmptyMap, ver |-> 0,
                     configured |-> n]
    /\ dir = [exists |-> TRUE, files |-> Files1, ver |-> 0]
    /\ clock = 1
    /\ messages = readMessagesFromYaml(dir).messages
    /\ runtimeMessages = EmptyMap
    /\ stats = [emptyStats EXCEPT !.lastReloadAt = 1]
    /\ mu = 0
    /\ observerCh = "ch"
    /\ chan = [closed |-> FALSE, buf |-> <<>>]
    /\ observerDone = "open"
    /\ worker = [pc |-> "recv", evt |-> NoRet, last |-> "none"]
    /\ th = [t \in Threads |-> idleThread]

\* the directory is rewritten, also between two attempts of one Reload
DiskEdit ==
    /\ hist.writes < MaxDiskEdits
    /\ \E files \in DirContents \ {dir.files} :
          dir' = [exists |-> TRUE, files |-> files, ver |-> dir.ver + 1]
    /\ hist' = [hist EXCEPT !.writes = @ + 1]
    /\ UNCHANGED <<cfg, clock, messages, runtimeMessages, stats, mu, observerCh, chan,
                   observerDone, worker, th>>

NextReload ==
    \/ \E t \in Threads : ReloadStart(t) \/ ReloadRead(t) \/ ReloadSwap(t)
    \/ DiskEdit

SpecReload == InitReload /\ [][NextReload]_vars

(***************************************************************************)
(* Readers and a writer: goroutines that call GetMessageWithCtx while      *)
(* others call LoadMessages                                                *)
(***************************************************************************)
\* requests for a key the catalog has from the start
ReaderRequests ==
    {[ctx |-> CtxNil, msgKey |-> "hello", params |-> NoParams],
     [ctx |-> CtxLang("PT_br"), msgKey |-> "hello", params |-> SomeParams]}

\* the batches the writer loads
WriterCalls ==
    {[lang |-> "en", batch |-> <<SysA>>],
     [lang |-> "en", batch |-> <<SysB>>],
     [lang |-> " PT_br ", batch |-> <<SysB>>]}

ReaderStart(t) ==
    /\ CanCall(t)
    /\ \E req \in ReaderRequests :
          th' = [th EXCEPT ![t] = [idleThread EXCEPT !.op = "Get", !.pc = "get_resolve",
                                      !.ctx = req.ctx, !.msgKey = req.msgKey,
                                      !.params = req.params]]
    /\ hist' = Called
    /\ UNCHANGED <<cfg, dir, clock, messages, runtimeMessages, stats, mu, observerCh,
                   chan, observerDone, worker>>

WriterStart(t) ==
    /\ CanCall(t)
    /\ \E call \in WriterCalls :
          th' = [th EXCEPT ![t] = [idleThread EXCEPT !.op = "LoadMessages", !.pc = "ld_lock",
                                      !.lang = call.lang, !.batch = call.batch]]
    /\ hist' = Called
    /\ UNCHANGED <<cfg, dir, clock, messages, runtimeMessages, stats, mu, observerCh,
                   chan, observerDone, worker>>

NextReadWrite ==
    \/ \E t \in Threads :
          \/ ReaderStart(t) \/ GetResolve(t) \/ GetLookup(t)
          \/ OnInc(t) \/ PubSendQueued(t) \/ PubSendFull(t) \/ DropInc(t)
          \/ WriterStart(t) \/ LoadRun(t)
    \/ WorkerRecv \/ SinkReturn

SpecReadWrite == Init /\ [][NextReadWrite]_vars

(***************************************************************************)
(* renderTemplate on its own: templates, parameter bags and resolved       *)
(* languages, rendered by a strict and by a lenient catalog                *)
(***************************************************************************)
RenderTemplates ==
    {"plain",
     "Hi {{name}}, {{role}}",
     "{{a}} {{b}}",
     "{{plural:n|one:a|few:b|other:c}}",
     "{{n}} {{plural:n|item|items}}",
     "{{plural:n|a|{{role}}",
     "{{plural:n|{{role|x}}}}",
     "{{plural:n|a|{{role}}}}",
     "{{num:n}} {{role}}"}

RenderParams ==
    {NoParams,
     [p \in {"name"} |-> [t |-> "string", s |-> "juan"]],
     [p \in {"a", "name"} |-> [t |-> "string", s |-> IF p = "a" THEN "{{b}}" ELSE "x"]],
     [p \in {"n", "role"} |->
        IF p = "n" THEN [t |-> "int", n |-> 1] ELSE [t |-> "string", s |-> "dev"]],
     [p \in {"n"} |-> [t |-> "int", n |-> 3]],
     [p \in {"n"} |-> [t |-> "string", s |-> "3"]]}

RenderLangs == {"en", "ar"}

InitRender ==
    /\ \E strict \in BOOLEAN : cfg = [Config EXCEPT !.StrictTemplates = strict]
    /\ dir = [exists |-> TRUE, files |-> Files1, ver |-> 0]
    /\ clock = 1
    /\ messages = readMessagesFromYaml(dir).messages
    /\ runtimeMessages = EmptyMap
    /\ stats = [emptyStats EXCEPT !.lastReloadAt = 1]
    /\ mu = 0
    /\ observerCh = "ch"
    /\ chan = [closed |-> FALSE, buf |-> <<>>]
    /\ observerDone = "open"
    /\ worker = [pc |-> "recv", evt |-> NoRet, last |-> "none"]
    /\ th = [t \in Threads |-> idleThread]
    /\ hist = [renders |-> 0, lang |-> "", template |-> "", params |-> NoParams,
               out |-> [text |-> "", issues |-> <<>>]]

\* one call of renderTemplate (lines 918-919 of GetMessageWithCtx make two)
RenderTemplate ==
    /\ hist.renders < MaxRenders
    /\ \E lang \in RenderLangs, template \in RenderTemplates, params \in RenderParams :
          hist' = [renders |-> hist.renders + 1, lang |-> lang, template |-> template,
                   params |-> params,
                   out |-> renderTemplate(lang, template, params, cfg.StrictTemplates)]
    /\ UNCHANGED <<cfg, dir, clock, messages, runtimeMessages, stats, mu, observerCh,
                   chan, observerDone, worker, th>>

NextRender == RenderTemplate

SpecRender == InitRender /\ [][NextRender]_vars

(***************************************************************************)
(* plural.Form on its own: calls with any language tag and count           *)
(***************************************************************************)
MaxInt == -(MinInt + 1)

FormLangs == {"en", "EN-us", " ar ", "ru", "sr_Latn", "pl", "cy", "he", "iw", "xx", ""}
FormCounts == (-MaxFormCount..MaxFormCount) \cup {MinInt, MinInt + 1, MaxInt}

\* -n as the machine computes it
negated(n) == IF n = MinInt THEN MinInt ELSE -n

InitForm ==
    /\ cfg = Config
    /\ dir = [exists |-> TRUE, files |-> Files1, ver |-> 0]
    /\ clock = 1
    /\ messages = readMessagesFromYaml(dir).messages
    /\ runtimeMessages = EmptyMap
    /\ stats = [emptyStats EXCEPT !.lastReloadAt = 1]
    /\ mu = 0
    /\ observerCh = "ch"
    /\ chan = [closed |-> FALSE, buf |-> <<>>]
    /\ observerDone = "open"
    /\ worker = [pc |-> "recv", evt |-> NoRet, last |-> "none"]
    /\ th = [t \in Threads |-> idleThread]
    /\ hist = [calls |-> 0, lang |-> "", count |-> 0, form |-> "", ofNegated |-> ""]

\* plural.Form(lang, count), and plural.Form(lang, -count)
FormCall ==
    /\ hist.calls < MaxFormCalls
    /\ \E lang \in FormLangs, count \in FormCounts :
          hist' = [calls |-> hist.calls + 1, lang |-> lang, count |-> count,
                   form |-> Form(lang, count), ofNegated |-> Form(lang, negated(count))]
    /\ UNCHANGED <<cfg, dir, clock, messages, runtimeMessages, stats, mu, observerCh,
                   chan, observerDone, worker, th>>

NextForm == FormCall

SpecForm == InitForm /\ [][NextForm]_vars

(***************************************************************************)
(* The choice of templates on its own: entries with and without forms,     *)
(* looked up for any resolved language and parameter bag                   *)
(***************************************************************************)
Forms(one, few, many, other) ==
    [f \in {x \in {"one", "few", "many", "other"} :
               \/ (x = "one" /\ one # "-") \/ (x = "few" /\ few # "-")
               \/ (x = "many" /\ many # "-") \/ (x = "other" /\ other # "-")} |->
        IF f = "one" THEN one ELSE IF f = "few" THEN few
        ELSE IF f = "many" THEN many ELSE other]

\* entries of a source file; "-" stands for a form the entry does not have
FormEntries ==
    {Raw("S", "L", "1"),
     [Raw("S", "L", "") EXCEPT !.ShortForms = Forms("s1", "-", "-", "so")],
     [Raw("S", "L", "") EXCEPT !.ShortForms = Forms("", "sf", "-", "-"),
                               !.LongForms = Forms("-", "-", "-", "lo")],
     [Raw("S", "", "") EXCEPT !.ShortForms = Forms("-", "-", "sm", "so"),
                              !.LongForms = Forms("l1", "-", "lm", ""),
                              !.PluralParam = "n"]}

FormParams ==
    {NoParams}
    \cup {[p \in {"count", "n"} |-> [t |-> "int", n |-> c]] : c \in {0, 1, 3, 11, -1, MinInt}}
    \cup {[p \in {"count"} |-> [t |-> "string", s |-> "3"]],
          [p \in {"n"} |-> [t |-> "int", n |-> 5]],
          [p \in {"count", "n"} |-> [t |-> "float", neg |-> FALSE, int |-> 1, frac |-> "5"]]}

SelectLangs == {"en", "ar", "ru", "pl-pl"}

InitSelect ==
    /\ cfg = Config
    /\ dir = [exists |-> TRUE, files |-> Files1, ver |-> 0]
    /\ clock = 1
    /\ \E entry \in FormEntries, langs \in (SUBSET SelectLangs) \ {{}} :
          messages = [l \in langs |->
                         [Group |-> "", Default |-> EnDefault,
                          Set |-> [k \in {"items"} |-> entry]]]
    /\ runtimeMessages = EmptyMap
    /\ stats = [emptyStats EXCEPT !.lastReloadAt = 1]
    /\ mu = 0
    /\ observerCh = "ch"
    /\ chan = [closed |-> FALSE, buf |-> <<>>]
    /\ observerDone = "open"
    /\ worker = [pc |-> "recv", evt |-> NoRet, last |-> "none"]
    /\ th = [t \in Threads |-> idleThread]
    /\ hist = [selects |-> 0, lang |-> "", msgKey |-> "", params |-> NoParams,
               chosen |-> NoRet]

\* lines 883-910 of GetMessageWithCtx for a resolved language
SelectEntry ==
    /\ hist.selects < MaxSelects
    /\ \E lang \in DOMAIN messages, msgKey \in {"items", "nope"}, params \in FormParams :
          hist' = [selects |-> hist.selects + 1, lang |-> lang, msgKey |-> msgKey,
                   params |-> params,
                   chosen |-> selectEntry(messages[lang], lang, msgKey, params)]
    /\ UNCHANGED <<cfg, dir, clock, messages, runtimeMessages, stats, mu, observerCh,
                   chan, observerDone, worker, th>>

NextSelect == SelectEntry

SpecSelect == InitSelect /\ [][NextSelect]_vars

(***************************************************************************)
(* catalogStats with its maps as objects.  In this specification the five  *)
(* fields of stats hold references into stats.heap, the maps allocated so  *)
(* far: reset and snapshot allocate maps, increment writes to the map its  *)
(* caller read from the field before stats.mu was taken.                   *)
(***************************************************************************)
FiveEmptyMaps == <<EmptyMap, EmptyMap, EmptyMap, EmptyMap, EmptyMap>>

\* the five maps at references n+1 .. n+5
refsFrom(n) ==
    [languageFallbacks |-> n + 1, missingLanguages |-> n + 2, missingMessages |-> n + 3,
     templateIssues |-> n + 4, droppedEvents |-> n + 5]

\* the maps a registry or a snapshot refers to
mapsOf(v, heap) == [f \in StatMaps |-> heap[v[f]]]

\* catalogStats.reset that forgets the reload time's field
resetMapsOnly(st) ==
    refsFrom(Len(st.heap)) @@ [lastReloadAt |-> st.lastReloadAt,
                               heap |-> st.heap \o FiveEmptyMaps]

\* catalogStats.reset: five new maps, the zero time
reset(st) ==
    refsFrom(Len(st.heap)) @@ [lastReloadAt |-> 0, heap |-> st.heap \o FiveEmptyMaps]

\* a snapshot that hands out the registry's own maps
snapshotShared(st) ==
    [value |-> [f \in StatMaps \cup {"lastReloadAt"} |-> st[f]], heap |-> st.heap]

\* catalogStats.snapshot: copies of the five maps and the time
snapshot(st) ==
    [value |-> refsFrom(Len(st.heap)) @@ [lastReloadAt |-> st.lastReloadAt],
     heap |-> st.heap \o <<st.heap[st.languageFallbacks], st.heap[st.missingLanguages],
                           st.heap[st.missingMessages], st.heap[st.templateIssues],
                           st.heap[st.droppedEvents]>>]

\* the increments the handlers ask for
RegistryEvents ==
    {[map |-> "missingMessages", key |-> "en:a"],
     [map |-> "missingMessages", key |-> "en:b"],
     [map |-> "droppedEvents", key |-> "observer_closed"]}

statsCaller == [op |-> "none", pc |-> "idle", target |-> 0, key |-> "", ret |-> NoRet]

\* a catalog configured with StatsMaxKeys = 2: the second key of a map is counted
\* as "__overflow__"
InitRegistry ==
    /\ cfg = [Config EXCEPT !.StatsMaxKeys = 2]
    /\ dir = [exists |-> TRUE, files |-> Files1, ver |-> 0]
    /\ clock = 1
    /\ messages = readMessagesFromYaml(dir).messages
    /\ runtimeMessages = EmptyMap
    /\ stats = refsFrom(0) @@ [lastReloadAt |-> 1, heap |-> FiveEmptyMaps]
    /\ mu = 0
    /\ observerCh = "ch"
    /\ chan = [closed |-> FALSE, buf |-> <<>>]
    /\ observerDone = "open"
    /\ worker = [pc |-> "recv", evt |-> NoRet, last |-> "none"]
    /\ th = [t \in Threads |-> statsCaller]
    /\ hist = [ops |-> 0, quiet |-> FALSE, lost |-> FALSE, overflowed |-> FALSE]

\* the registry refers to the map at ref
live(ref) == \E f \in StatMaps : stats[f] = ref

\* incrementXxx, lines 108-126: the arguments s.<map> and key of increment
StatsIncrementArgs(t) ==
    /\ th[t].pc = "idle"
    /\ hist.ops < MaxRegistryOps
    /\ \E e \in RegistryEvents :
          th' = [th EXCEPT ![t] = [statsCaller EXCEPT !.op = "increment", !.pc = "locked",
                                      !.target = stats[e.map], !.key = e.key]]
    /\ hist' = [hist EXCEPT !.ops = @ + 1]
    /\ UNCHANGED <<cfg, dir, clock, messages, runtimeMessages, stats, mu, observerCh,
                   chan, observerDone, worker>>

\* catalogStats.increment, lines 87-106, under stats.mu
StatsIncrement(t) ==
    /\ th[t].pc = "locked"
    /\ stats' = [stats EXCEPT !.heap[th[t].target] =
                    increment(@, th[t].key, cfg.StatsMaxKeys)]
    /\ th' = [th EXCEPT ![t] = [statsCaller EXCEPT !.op = "increment"]]
    /\ hist' = [hist EXCEPT !.quiet = @ /\ ~live(th[t].target),
                            !.lost = @ \/ ~live(th[t].target)]
    /\ UNCHANGED <<cfg, dir, clock, messages, runtimeMessages, mu, observerCh, chan,
                   observerDone, worker>>

\* line 263 of loadFromYaml: setLastReloadAt(NowFn())
StatsSetLastReloadAt ==
    /\ hist.ops < MaxRegistryOps
    /\ clock' = clock + 1
    /\ stats' = [stats EXCEPT !.lastReloadAt = clock']
    /\ hist' = [hist EXCEPT !.ops = @ + 1, !.quiet = FALSE]
    /\ UNCHANGED <<cfg, dir, messages, runtimeMessages, mu, observerCh, chan,
                   observerDone, worker, th>>

\* ResetStats, start to return
StatsReset(t) ==
    /\ th[t].pc = "idle"
    /\ hist.ops < MaxRegistryOps
    /\ stats' = reset(stats)
    /\ th' = [th EXCEPT ![t] = [statsCaller EXCEPT !.op = "ResetStats",
                                   !.ret = [kind |-> "reset"]]]
    /\ hist' = [ops |-> hist.ops + 1, quiet |-> TRUE, lost |-> FALSE,
                overflowed |-> \E f \in StatMaps :
                                  overflowStatKey \in DOMAIN stats.heap[stats[f]]]
    /\ UNCHANGED <<cfg, dir, clock, messages, runtimeMessages, mu, observerCh, chan,
                   observerDone, worker>>

\* SnapshotStats, start to return; `seen` is what the snapshot showed when it
\* was returned, `at` and `atTime` what the registry held when it was called
StatsSnapshot(t) ==
    /\ th[t].pc = "idle"
    /\ hist.ops < MaxRegistryOps
    /\ stats' = [stats EXCEPT !.heap = snapshot(stats).heap]
    /\ th' = [th EXCEPT ![t] =
                 [statsCaller EXCEPT
                    !.op = "SnapshotStats",
                    !.ret = [kind |-> "snapshot", value |-> snapshot(stats).value,
                             seen |-> mapsOf(snapshot(stats).value, snapshot(stats).heap),
                             at |-> mapsOf(stats, stats.heap),
                             atTime |-> stats.lastReloadAt,
                             quiet |-> hist.quiet, lost |-> hist.lost,
                             overflowed |-> hist.overflowed]]]
    /\ hist' = [hist EXCEPT !.ops = @ + 1]
    /\ UNCHANGED <<cfg, dir, clock, messages, runtimeMessages, mu, observerCh, chan,
                   observerDone, worker>>

NextRegistry ==
    \/ \E t \in Threads :
          \/ StatsIncrementArgs(t) \/ StatsIncrement(t) \/ StatsReset(t) \/ StatsSnapshot(t)
    \/ StatsSetLastReloadAt

SpecRegistry == InitRegistry /\ [][NextRegistry]_vars

(***************************************************************************)
(* normalizeLangTag on its own: any short tag, a respelling of it, and the *)
(* language each resolves to                                               *)
(***************************************************************************)
TagChars == {"E", "s", "_", "-", " ", "\t"}

RECURSIVE tagsOfLen(_)
tagsOfLen(n) == IF n = 0 THEN {""} ELSE {c \o s : c \in TagChars, s \in tagsOfLen(n - 1)}

NormalizeTags == UNION {tagsOfLen(n) : n \in 0..MaxTagLen}

UpperChar(c) ==
    IF Contains(LowerLetters, c)
    THEN Char(UpperLetters, CHOOSE i \in 1..26 : Char(LowerLetters, i) = c)
    ELSE c

RECURSIVE ToUpper(_)
ToUpper(s) ==
    IF s = "" THEN "" ELSE UpperChar(Char(s, 1)) \o ToUpper(SubSeq(s, 2, Len(s)))

Blanks == {"", " ", "\t ", "\n"}

\* tags that differ from tag in case, in surrounding whitespace or in the
\* separator only
respelled(tag) ==
    {l \o body \o r : l \in Blanks, r \in Blanks,
                      body \in {tag, ToUpper(tag), ToLower(tag),
                                ReplaceAll(tag, "-", "_"), ReplaceAll(tag, "_", "-")}}

NormalizeLangs == {"en", "s-e", "e"}

InitNormalize ==
    /\ cfg = Config
    /\ dir = [exists |-> TRUE, files |-> Files1, ver |-> 0]
    /\ clock = 1
    /\ \E langs \in SUBSET NormalizeLangs : messages = [l \in langs |-> skeletonMessages]
    /\ runtimeMessages = EmptyMap
    /\ stats = [emptyStats EXCEPT !.lastReloadAt = 1]
    /\ mu = 0
    /\ observerCh = "ch"
    /\ chan = [closed |-> FALSE, buf |-> <<>>]
    /\ observerDone = "open"
    /\ worker = [pc |-> "recv", evt |-> NoRet, last |-> "none"]
    /\ th = [t \in Threads |-> idleThread]
    /\ hist = [calls |-> 0, tag |-> "", other |-> "", out |-> "", twice |-> "",
               outOther |-> "", lang |-> NoRet, langOther |-> NoRet]

\* normalizeLangTag(tag), normalizeLangTag of its result and of a respelling,
\* and lines 856-857 of GetMessageWithCtx for both spellings
NormalizeCall ==
    /\ hist.calls < MaxNormalizeCalls
    /\ \E tag \in NormalizeTags :
          \E other \in respelled(tag) :
             hist' = [calls |-> hist.calls + 1, tag |-> tag, other |-> other,
                      out |-> normalizeLangTag(tag),
                      twice |-> normalizeLangTag(normalizeLangTag(tag)),
                      outOther |-> normalizeLangTag(other),
                      lang |-> resolveLanguage(cfg, messages,
                                               resolveRequestedLang(cfg, CtxLang(tag))),
                      langOther |-> resolveLanguage(cfg, messages,
                                                    resolveRequestedLang(cfg, CtxLang(other)))]
    /\ UNCHANGED <<cfg, dir, clock, messages, runtimeMessages, stats, mu, observerCh,
                   chan, observerDone, worker, th>>

NextNormalize == NormalizeCall

SpecNormalize == InitNormalize /\ [][NextNormalize]_vars

(***************************************************************************)
(* Requests for a regional tag while the directory is rewritten and        *)
(* reloaded                                                                *)
(***************************************************************************)
\* requests whose tag the catalog has, and requests it serves by a fallback
RegionalRequests ==
    {[ctx |-> CtxLang("en"), msgKey |-> "hello", params |-> SomeParams],
     [ctx |-> CtxLang("es-AR"), msgKey |-> "hello", params |-> SomeParams],
     [ctx |-> CtxLang("es_AR"), msgKey |-> "nope", params |-> NoParams]}

RegionalStart(t) ==
    /\ CanCall(t)
    /\ \E req \in RegionalRequests :
          th' = [th EXCEPT ![t] = [idleThread EXCEPT !.op = "Get", !.pc = "get_resolve",
                                      !.ctx = req.ctx, !.msgKey = req.msgKey,
                                      !.params = req.params]]
    /\ hist' = Called
    /\ UNCHANGED <<cfg, dir, clock, messages, runtimeMessages, stats, mu, observerCh,
                   chan, observerDone, worker>>

NextRegional ==
    \/ \E t \in Threads :
          \/ RegionalStart(t) \/ GetResolve(t) \/ GetLookup(t)
          \/ OnInc(t) \/ PubSendQueued(t) \/ PubSendFull(t) \/ DropInc(t)
          \/ ReloadStart(t) \/ ReloadRead(t) \/ ReloadSwap(t)
    \/ WorkerRecv \/ SinkReturn
    \/ DiskWrite

SpecRegional == Init /\ [][NextRegional]_vars

(***************************************************************************)
(* One request made of two catalogs that differ in StrictTemplates only    *)
(***************************************************************************)
StrictEntries ==
    [k \in {"hello", "nest", "num"} |->
        IF k = "hello" THEN Raw("Hi {{name}}", "", "H1")
        ELSE IF k = "nest" THEN Raw("{{plural:n|a|{{role}}", "{{date:d}}", "N1")
        ELSE Raw("{{num:n}} left", "{{plural:n|item|items}}", "")]

StrictCatalogs ==
    {[l \in langs |-> [Group |-> "0", Default |-> EnDefault, Set |-> StrictEntries]] :
        langs \in {{"en"}, {"en", "es"}}}

StrictContexts == {CtxNil, CtxLang("es-AR"), CtxLang("de")}
StrictKeys == {"hello", "nest", "num", "nope"}
StrictParams ==
    {NoParams,
     [p \in {"name"} |-> [t |-> "string", s |-> "juan"]],
     [p \in {"n"} |-> [t |-> "int", n |-> 3]],
     [p \in {"n"} |-> [t |-> "string", s |-> "3"]],
     [p \in {"n", "role"} |->
        IF p = "n" THEN [t |-> "int", n |-> 1] ELSE [t |-> "string", s |-> "dev"]]}

InitStrict ==
    /\ \E strict \in BOOLEAN : cfg = [Config EXCEPT !.StrictTemplates = strict]
    /\ dir = [exists |-> TRUE, files |-> Files1, ver |-> 0]
    /\ clock = 1
    /\ messages \in StrictCatalogs
    /\ runtimeMessages = EmptyMap
    /\ stats = [emptyStats EXCEPT !.lastReloadAt = 1]
    /\ mu = 0
    /\ observerCh = "ch"
    /\ chan = [closed |-> FALSE, buf |-> <<>>]
    /\ observerDone = "open"
    /\ worker = [pc |-> "recv", evt |-> NoRet, last |-> "none"]
    /\ th = [t \in Threads |-> idleThread]
    /\ hist = [calls |-> 0, ctx |-> CtxNil, msgKey |-> "", params |-> NoParams,
               strict |-> NoRet, lenient |-> NoRet,
               strictStats |-> stats, lenientStats |-> stats]

\* one call of GetMessageWithCtx on this catalog, and what the same call
\* gives on the catalog with StrictTemplates on and with it off
StrictCall ==
    /\ hist.calls < MaxStrictCalls
    /\ \E ctx \in StrictContexts, msgKey \in StrictKeys, params \in StrictParams :
          LET on == getMessageWithCtx([cfg EXCEPT !.StrictTemplates = TRUE], messages,
                                      ctx, msgKey, params)
              off == getMessageWithCtx([cfg EXCEPT !.StrictTemplates = FALSE], messages,
                                       ctx, msgKey, params)
              out == IF cfg.StrictTemplates THEN on ELSE off
              after == handled(stats, chan.buf, out.events, cfg)
          IN /\ stats' = after.stats
             /\ chan' = [chan EXCEPT !.buf = after.buf]
             /\ hist' = [calls |-> hist.calls + 1, ctx |-> ctx, msgKey |-> msgKey,
                         params |-> params, strict |-> on, lenient |-> off,
                         strictStats |-> handled(stats, chan.buf, on.events, cfg).stats,
                         lenientStats |-> handled(stats, chan.buf, off.events, cfg).stats]
    /\ UNCHANGED <<cfg, dir, clock, messages, runtimeMessages, mu, observerCh,
                   observerDone, worker, th>>

NextStrict == StrictCall

SpecStrict == InitStrict /\ [][NextStrict]_vars

(***************************************************************************)
(* renderTemplate for parameter values that look like placeholders         *)
(***************************************************************************)
\* templates with the placeholder {{a}}; pre and post are what the template
\* gives before and after it when n is 3
ValueTemplates ==
    {[tpl |-> "{{a}}", pre |-> "", post |-> ""],
     [tpl |-> "Hi {{a}}!", pre |-> "Hi ", post |-> "!"],
     [tpl |-> "{{a}} {{num:n}}", pre |-> "", post |-> " 3"],
     [tpl |-> "{{plural:n|one|many}}: {{a}}", pre |-> "many: ", post |-> ""]}

ParamValues == {"{{x}}", "{{num:x}}", "{{date:x}}", "{{plural:x|a|b}}", "{{a}}", "plain"}

\* the bag with the value under a, 3 under n and, if withX, 1 under x
valueParams(value, withX) ==
    [p \in {"a", "n"} \cup (IF withX THEN {"x"} ELSE {}) |->
        IF p = "a" THEN [t |-> "string", s |-> value]
        ELSE IF p = "n" THEN [t |-> "int", n |-> 3]
        ELSE [t |-> "int", n |-> 1]]

InitValue ==
    /\ \E strict \in BOOLEAN : cfg = [Config EXCEPT !.StrictTemplates = strict]
    /\ dir = [exists |-> TRUE, files |-> Files1, ver |-> 0]
    /\ clock = 1
    /\ messages = readMessagesFromYaml(dir).messages
    /\ runtimeMessages = EmptyMap
    /\ stats = [emptyStats EXCEPT !.lastReloadAt = 1]
    /\ mu = 0
    /\ observerCh = "ch"
    /\ chan = [closed |-> FALSE, buf |-> <<>>]
    /\ observerDone = "open"
    /\ worker = [pc |-> "recv", evt |-> NoRet, last |-> "none"]
    /\ th = [t \in Threads |-> idleThread]
    /\ hist = [renders |-> 0, lang |-> "", template |-> [tpl |-> "", pre |-> "", post |-> ""],
               value |-> "", withX |-> FALSE, out |-> [text |-> "", issues |-> <<>>]]

\* one call of renderTemplate
RenderValue ==
    /\ hist.renders < MaxValueRenders
    /\ \E lang \in RenderLangs, template \in ValueTemplates, value \in ParamValues,
          withX \in BOOLEAN :
          hist' = [renders |-> hist.renders + 1, lang |-> lang, template |-> template,
                   value |-> value, withX |-> withX,
                   out |-> renderTemplate(lang, template.tpl, valueParams(value, withX),
                                          cfg.StrictTemplates)]
    /\ UNCHANGED <<cfg, dir, clock, messages, runtimeMessages, stats, mu, observerCh,
                   chan, observerDone, worker, th>>

NextValue == RenderValue

SpecValue == InitValue /\ [][NextValue]_vars

(***************************************************************************)
(* Properties                                                              *)
(***************************************************************************)
\* goroutine t is back from a call of op
Returned(t, op) == th[t].op = op /\ th[t].pc = "idle"

\* C1: every GetMessageWithCtx call that has ended returned a Message whose
\* Key is the queried key, whatever LoadMessages, Reload, ResetStats and Close
\* did before or meanwhile, and no panic has left a call.
GetReturnsMessage ==
    \A t \in Threads :
        /\ th[t].pc # "panicked"
        /\ Returned(t, "Get") =>
              /\ th[t].ret.kind = "message"
              /\ th[t].ret.msg.Key = th[t].ret.key
              /\ th[t].ret.msg.Code \in STRING

\* a Get returned although its send met the channel Close had closed
GetReturnedAcrossClose ==
    \E t \in Threads :
        /\ Returned(t, "Get")
        /\ "observer_closed" \in DOMAIN stats.droppedEvents

\* a request for language lang and key finds entry in the catalog msgs: the
\* language resolves to itself and the entry chosen is the one loaded
retrievable(msgs, lang, key, entry) ==
    /\ lang \in DOMAIN msgs
    /\ resolveLanguage(cfg, msgs, lang) = [lang |-> lang, found |-> TRUE, usedFallback |-> FALSE]
    /\ key \in DOMAIN msgs[lang].Set
    /\ msgs[lang].Set[key] = entry
    /\ ~selectEntry(msgs[lang], lang, key, NoParams).missingMessage
    /\ selectEntry(msgs[lang], lang, key, NoParams).code = entry.Code

\* C2: the catalog a successful Reload publishes holds every entry an earlier
\* successful LoadMessages accepted, under its language, with the value that
\* was loaded, whatever the files read contain.
ReloadKeepsRuntimeKeys ==
    [][(\E t \in Threads : th[t].pc = "rl_swap" /\ th'[t].pc = "idle")
         => \A k \in DOMAIN hist.loaded : retrievable(messages', k[1], k[2], hist.loaded[k])]_vars

\* a Reload published files that define a loaded key themselves, or that have
\* no file for the language of a loaded key
ReloadOverLoadedKey ==
    /\ \E t \in Threads : Returned(t, "Reload") /\ th[t].ret.ok /\ th[t].ret.swapLoads > 0
    /\ hist.ver = dir.ver
    /\ \/ dir.files = Files2 /\ <<"en", "sys.a">> \in DOMAIN hist.loaded
       \/ dir.files = Files4 /\ <<"en", "sys.a">> \in DOMAIN hist.loaded
       \/ <<"pt-br", "sys.b">> \in DOMAIN hist.loaded

\* the last attempt of goroutine t's Reload is about to read a directory that
\* does not load
lastAttemptFails(t) ==
    /\ th[t].pc = "rl_read"
    /\ th[t].attempt >= retries(cfg)
    /\ ~readMessagesFromYaml(dir).ok

reloadError(r) == r.pc = "idle" /\ r.op = "Reload" /\ r.ret.kind = "reload" /\ ~r.ret.ok

\* C3: when the last attempt of a Reload fails the call returns an error, and
\* the step on which a Reload returns an error changes neither dmc.messages
\* nor dmc.runtimeMessages nor lastReloadAt.
FailedReloadChangesNothing ==
    [][\A t \in Threads :
          /\ (lastAttemptFails(t) /\ th'[t] # th[t]) => reloadError(th'[t])
          /\ (th[t].pc # "idle" /\ reloadError(th'[t])) =>
                /\ messages' = messages
                /\ runtimeMessages' = runtimeMessages
                /\ stats'.lastReloadAt = stats.lastReloadAt]_vars

\* a Reload has returned an error after a retry
ReloadFailedAfterRetry ==
    \E t \in Threads : reloadError(th[t]) /\ dir.files = Files3 /\ hist.ver = 0

\* C4: once a Reload has returned success, the catalog requests read was built
\* from a directory content at least as new as the one that Reload read.
ReloadSeenByLaterGets ==
    \A t \in Threads :
        (Returned(t, "Reload") /\ th[t].ret.ok) => hist.ver >= th[t].ret.ver

\* C5: once LoadMessages(lang, entries) has returned success, a request whose
\* language resolves to the normalized lang finds every entry of the batch
\* with its templates, forms and code, in every later state.
LoadedEntriesVisible ==
    \A t \in Threads :
        (Returned(t, "LoadMessages") /\ th[t].ret.ok) =>
            \A i \in 1..Len(th[t].ret.batch) :
                retrievable(messages, th[t].ret.lang, th[t].ret.batch[i].Key,
                            normalizedMessage(th[t].ret.batch[i]))

\* a LoadMessages succeeded after a Reload had read its files, and the Reload
\* published afterwards
LoadOvertakenByReload ==
    \E t, u \in Threads :
        /\ Returned(t, "LoadMessages") /\ th[t].ret.ok
        /\ Returned(u, "Reload") /\ th[u].ret.ok
        /\ th[u].ret.readLoads = 0 /\ th[u].ret.swapLoads > 0

\* C6: no GetMessageWithCtx call waits for dmc.mu while Close holds it waiting
\* for a consumer whose sink call never returns.
GetIndependentOfSink ==
    \A t \in Threads :
        (th[t].op = "Get" /\ th[t].pc \in {"get_resolve", "get_lookup"}) =>
            ~(mu # 0 /\ th[mu].pc = "cl_wait" /\ worker.pc = "hung")

\* C7: a panic of the sink never ends the consumer; the step on which a sink
\* call panics leaves the consumer ready for the next event and changes no
\* counter, no queued event and no calling goroutine.
SinkPanicSwallowed ==
    /\ [](worker.pc # "crashed")
    /\ [][(worker.pc = "sink" /\ worker' # worker /\ worker'.last = "panic")
            => /\ worker'.pc = "recv"
               /\ stats' = stats
               /\ chan' = chan
               /\ th' = th]_vars

\* after a sink call panicked the consumer is delivering a later event
DeliveryAfterPanic == worker.last = "panic" /\ worker.pc = "sink"

statCount(m, k) == IF k \in DOMAIN m THEN m[k] ELSE 0

\* the map after one increment for key k under cap: an entry of its own for a
\* key already present or for a first-seen key while fewer than cap - 1
\* entries exist, the overflow bucket otherwise
cappedIncrement(old, k, cap) ==
    IF k \in DOMAIN old THEN Put(old, k, old[k] + 1)
    ELSE IF Cardinality(DOMAIN old) < cap - 1 THEN Put(old, k, 1)
    ELSE Put(old, overflowStatKey, statCount(old, overflowStatKey) + 1)

\* C8: with cap M every stats map holds at most M keys, a map that holds M
\* keys holds "__overflow__", and each recorded event changes its map alone:
\* a key already present is incremented under its own name, a first-seen key
\* gets its own entry only while the map has fewer than M-1 entries and is
\* counted under "__overflow__" otherwise.
StatsCapRespected ==
    /\ [](\A name \in StatMaps :
            /\ Cardinality(DOMAIN stats[name]) <= cfg.StatsMaxKeys
            /\ Cardinality(DOMAIN stats[name]) = cfg.StatsMaxKeys
                  => overflowStatKey \in DOMAIN stats[name])
    /\ [][hist'.events = hist.events + 1 =>
            /\ \A other \in StatMaps \ {hist'.map} : stats'[other] = stats[other]
            /\ stats'[hist'.map] = cappedIncrement(stats[hist'.map],
                                                   sanitizeStatKey(hist'.key),
                                                   cfg.StatsMaxKeys)]_vars

\* a saturated map has counted two first-seen keys in the overflow bucket and
\* a key of its own twice
OverflowCountsNovelKeys ==
    \E name \in StatMaps :
        /\ statCount(stats[name], overflowStatKey) >= 2
        /\ \E k \in DOMAIN stats[name] \ {overflowStatKey} : stats[name][k] >= 2

\* the chain [requested, base(requested), fallbacks normalized, default, "en"]
specChain(config, requested) ==
    <<requested, baseLangTag(requested)>>
    \o [i \in 1..Len(config.FallbackLanguages) |->
          normalizeLangTag(config.FallbackLanguages[i])]
    \o <<normalizeLangTag(config.DefaultLanguage), "en">>

\* the first element of chain that the catalog has, "" when it has none
firstPresent(chain, msgs) ==
    LET hits == {i \in 1..Len(chain) : chain[i] \in DOMAIN msgs} IN
    IF hits = {} THEN "" ELSE chain[CHOOSE i \in hits : \A j \in hits : i <= j]

\* the latest resolution is the first language present along chain, and
\* missing-language when none is
resolvesAlong(chain) ==
    IF firstPresent(chain, messages) = "" THEN ~hist.result.found
    ELSE hist.result.found /\ hist.result.lang = firstPresent(chain, messages)

\* C9 as stated: the resolved language is the first language present along
\* the chain built from the normalized requested tag.
ResolvedIsFirstOfChain ==
    hist.requests > 0 => resolvesAlong(specChain(cfg, hist.requested))

\* C9: the resolved language is the first language present along the chain
\* built from the normalized requested tag, an empty requested tag counting
\* as "en"; with no chain element present the outcome is missing-language.
ResolvedIsFirstOfChainFromEn ==
    hist.requests > 0 =>
        resolvesAlong(specChain(cfg, IF hist.requested = "" THEN "en" ELSE hist.requested))

\* an empty requested tag resolved to "en" although a fallback language
\* earlier in the chain of the statement is present
EmptyRequestResolvedToEn ==
    /\ hist.requests > 0
    /\ hist.requested = ""
    /\ hist.result.found /\ hist.result.lang = "en"
    /\ firstPresent(specChain(cfg, ""), messages) # "en"

\* goroutine t takes its step out of pc
leaves(t, pc) == th[t].pc = pc /\ th'[t].pc # pc

\* the send of goroutine t's event was refused for reason, nothing else changed
refused(t, reason) ==
    /\ chan' = chan
    /\ stats' = stats
    /\ th'[t].pc = "drop_inc" /\ th'[t].reason = reason

\* the event of goroutine t was queued, nothing was counted
queued(t) ==
    /\ chan' = [chan EXCEPT !.buf = Append(@, Head(th[t].pending))]
    /\ stats' = stats
    /\ th'[t].pc # "drop_inc"

PubSend(t) == PubSendQueued(t) \/ PubSendFull(t) \/ PubSendClosed(t) \/ PubSendNil(t)

publishes(t) ==
    /\ th[t].pc = "on_inc"
    /\ th'[t].pc # "on_inc" \/ th'[t].pending # th[t].pending

\* C11: an event produced when Close has torn the observer pipeline down
\* (the field dmc.observerCh is nil again) is not delivered and is counted:
\* publishing it leads to the increment of DroppedEvents["observer_closed"].
EventAfterCloseCounted ==
    [][\A t \in Threads :
          (publishes(t) /\ cfg.Observer /\ observerCh = "nil") =>
              (th'[t].pc = "drop_inc" /\ th'[t].reason = "observer_closed")]_vars

\* C12: Close returns only after the consumer has finished.  When a Close
\* has returned the channel is closed and empty and the consumer has left
\* its loop; every event taken out of the queue is passed to the sink; and
\* the sink is not invoked once a Close has returned.
CloseJoinsConsumer ==
    /\ [](\A t \in Threads : (Returned(t, "Close") /\ cfg.Observer) =>
              (chan.closed /\ chan.buf = <<>> /\ worker.pc = "done"))
    /\ [][(chan'.buf # chan.buf /\ Len(chan'.buf) < Len(chan.buf)) =>
              (/\ chan'.buf = Tail(chan.buf)
               /\ worker'.pc = "sink" /\ worker'.evt = Head(chan.buf))]_vars
    /\ [][(worker'.pc = "sink" /\ worker.pc # "sink") =>
              \A t \in Threads : ~Returned(t, "Close")]_vars

\* a Close has returned that found events still queued when it closed the
\* channel, and the sink has been called
ClosedWithQueuedEvents ==
    \E t \in Threads :
        /\ Returned(t, "Close") /\ th[t].ret.queued > 0
        /\ worker.last # "none"

\* key is one LoadMessages refuses on sight
illFormed(key) == key = "" \/ ~HasPrefix(key, "sys.") \/ ~messageKeyRegexMatch(key)

\* the language has key in the mapping msgs (language -> [Set])
keyTaken(msgs, lang, key) == lang \in DOMAIN msgs /\ key \in DOMAIN msgs[lang].Set

\* the language has key in the runtime mapping
keyLoaded(runtime, lang, key) == lang \in DOMAIN runtime /\ key \in DOMAIN runtime[lang]

\* the batch repeats the key of its i-th entry from an earlier entry
repeated(batch, i) == \E j \in 1..(i - 1) : batch[j].Key = batch[i].Key

\* the call LoadMessages(lang, batch) on the primary mapping msgs has a
\* language that normalizes to empty or an entry that is ill-formed or
\* whose key exists already
mustReject(msgs, lang, batch) ==
    \/ normalizeLangTag(lang) = ""
    \/ \E i \in 1..Len(batch) :
          \/ illFormed(batch[i].Key)
          \/ keyTaken(msgs, normalizeLangTag(lang), batch[i].Key)
          \/ repeated(batch, i)

LoadReplacesLoadedKey ==
    (/\ hist.loads > 0
     /\ normalizeLangTag(hist.lang) # ""
     /\ \A i \in 1..Len(hist.batch) :
            ~illFormed(hist.batch[i].Key) /\ ~repeated(hist.batch, i)
     /\ \E i \in 1..Len(hist.batch) :
            keyLoaded(hist.beforeRuntime, normalizeLangTag(hist.lang), hist.batch[i].Key))
    => (/\ hist.ok
        /\ \A i \in 1..Len(hist.batch) :
               messages[normalizeLangTag(hist.lang)].Set[hist.batch[i].Key]
                   = normalizedMessage(hist.batch[i]))

\* C15: every key of the runtime mapping of a language is in the primary
\* mapping of that language, with the runtime entry's value; this holds in
\* every reachable state, after LoadMessages (also a refused one) and after
\* Reload.
RuntimeWithinPrimary ==
    \A lang \in DOMAIN runtimeMessages : \A key \in DOMAIN runtimeMessages[lang] :
        /\ keyTaken(messages, lang, key)
        /\ messages[lang].Set[key] = runtimeMessages[lang][key]

\* a Reload has published its swap over a runtime layer that holds entries
\* of a language without a source file
RuntimeLanguageAfterReload ==
    /\ \E t \in Threads : Returned(t, "Reload") /\ th[t].ret.ok /\ th[t].ret.swapLoads > 0
    /\ \E lang \in DOMAIN runtimeMessages :
          runtimeMessages[lang] # EmptyMap /\ lang \notin DOMAIN readMessagesFromYaml(dir).messages

\* C16: every language of the primary mapping has a default entry with a
\* non-empty short or long template, also a language LoadMessages created
\* and one Reload re-created from the runtime layer.
DefaultEntryPresent ==
    \A lang \in DOMAIN messages :
        messages[lang].Default.ShortTpl # "" \/ messages[lang].Default.LongTpl # ""

\* the resolution of the latest request of the requests-only specification
latestResolution ==
    resolveLanguage(cfg, messages, resolveRequestedLang(cfg, hist.ctx))

\* the number of events of the latest request that equal evt
emitted(evt) == Cardinality({i \in 1..Len(hist.events) : hist.events[i] = evt})

\* the number of events of the latest request that are of kind
emittedOfKind(kind) == Cardinality({i \in 1..Len(hist.events) : hist.events[i].kind = kind})

\* the default entry of language lang rendered with the latest request's params
defaultRendered(lang) ==
    [ShortText |-> renderTemplate(lang, messages[lang].Default.ShortTpl, hist.params,
                                  cfg.StrictTemplates).text,
     LongText |-> renderTemplate(lang, messages[lang].Default.LongTpl, hist.params,
                                 cfg.StrictTemplates).text,
     Code |-> "msgcat.missing_message", Key |-> hist.msgKey]

\* the latest request found its key, or counted and reported its miss once
\* with the counter being `counter`
missRecorded(lang, counter) ==
    IF hist.msgKey \in DOMAIN messages[lang].Set
    THEN /\ stats.missingMessages = hist.before.missingMessages
         /\ emittedOfKind("MessageMissing") = 0
         /\ hist.msg.Key = hist.msgKey
         /\ hist.msg.Code = messages[lang].Set[hist.msgKey].Code
    ELSE /\ hist.msg = defaultRendered(lang)
         /\ emitted(evtMessageMissing(lang, hist.msgKey)) = 1
         /\ emittedOfKind("MessageMissing") = 1
         /\ counter

\* C17 as stated: a miss adds one to MissingMessages["<resolved_lang>:<key>"].
MissingMessageCountedUnderKey ==
    (hist.gets > 0 /\ latestResolution.found) =>
        missRecorded(latestResolution.lang,
            statCount(stats.missingMessages, latestResolution.lang \o ":" \o hist.msgKey)
              = statCount(hist.before.missingMessages,
                          latestResolution.lang \o ":" \o hist.msgKey) + 1)

\* C17: when the key is absent from the resolved language the call returns
\* that language's default entry rendered with the params, Code the
\* missing-message sentinel and Key the queried key, emits one
\* MessageMissing(resolved_lang, key) event and makes one capped increment
\* of MissingMessages for the sanitized key "<resolved_lang>:<key>" (counted
\* under "__overflow__" when the map is saturated); when the key is present
\* none of these happen.
MissingMessageRecorded ==
    (hist.gets > 0 /\ latestResolution.found) =>
        missRecorded(latestResolution.lang,
            stats.missingMessages
              = cappedIncrement(hist.before.missingMessages,
                                sanitizeStatKey(latestResolution.lang \o ":" \o hist.msgKey),
                                cfg.StatsMaxKeys))

\* a miss was counted under "__overflow__"
MissCountedInOverflow ==
    /\ hist.gets > 0 /\ latestResolution.found
    /\ hist.msgKey \notin DOMAIN messages[latestResolution.lang].Set
    /\ statCount(stats.missingMessages, overflowStatKey)
          > statCount(hist.before.missingMessages, overflowStatKey)

\* the latest request ended as missing-language, counted once with the
\* counter being `counter`
languageMissRecorded(requested, counter) ==
    /\ hist.msg = [ShortText |-> "Unexpected error in message catalog, language ["
                                   \o requested \o "] not found. ",
                   LongText |-> "Unexpected error in message catalog, language ["
                                  \o requested \o "] not found. Please, contact support.",
                   Code |-> "msgcat.missing_language", Key |-> hist.msgKey]
    /\ hist.events = <<evtLanguageMissing(requested)>>
    /\ stats.missingMessages = hist.before.missingMessages
    /\ counter

\* C18 as stated: a request whose chain has no language in the catalog adds
\* one to MissingLanguages[normalized requested tag].
MissingLanguageCountedUnderTag ==
    (hist.gets > 0 /\ ~latestResolution.found) =>
        languageMissRecorded(resolveRequestedLang(cfg, hist.ctx),
            statCount(stats.missingLanguages, resolveRequestedLang(cfg, hist.ctx))
              = statCount(hist.before.missingLanguages,
                          resolveRequestedLang(cfg, hist.ctx)) + 1)

\* C18: when no element of the candidate chain is in the catalog the call
\* returns the stock text embedding the normalized requested tag, with Code
\* the missing-language sentinel, emits one LanguageMissing event and no
\* other, records no missing message, and makes one capped increment of
\* MissingLanguages for the sanitized tag ("unknown" for an empty tag,
\* "__overflow__" when the map is saturated).
MissingLanguageRecorded ==
    (hist.gets > 0 /\ ~latestResolution.found) =>
        languageMissRecorded(resolveRequestedLang(cfg, hist.ctx),
            stats.missingLanguages
              = cappedIncrement(hist.before.missingLanguages,
                                sanitizeStatKey(resolveRequestedLang(cfg, hist.ctx)),
                                cfg.StatsMaxKeys))

\* a request with an empty language tag ended as missing-language and was
\* counted under "unknown"
EmptyTagCountedAsUnknown ==
    /\ hist.gets > 0 /\ ~latestResolution.found
    /\ resolveRequestedLang(cfg, hist.ctx) = ""
    /\ statCount(stats.missingLanguages, "unknown") >= 1

\* the retries a load configured with n makes
allowedRetries(n) == IF n < 0 THEN 0 ELSE n

\* goroutine t makes an attempt of its retry loop
attempts(t) == th[t].pc = "rl_read" /\ th'[t] # th[t]

\* C19: a Reload configured with N retries makes at most N+1 attempts, a
\* negative N counting as 0.  Each attempt reads the whole directory.  A
\* successful attempt ends the loop, and what it read is what the swap
\* publishes, merged with the runtime layer, with last reload time set from
\* the clock.  A failed attempt is followed by another only while fewer
\* than N retries were made; the failure of attempt N+1 ends the call with
\* an error and changes nothing.  Every step of the loop ends it or uses up
\* one of the N retries, so the loop terminates.
RetryLoopBounded ==
    /\ [](\A t \in Threads :
            /\ th[t].pc = "rl_read" => th[t].attempt \in 0..allowedRetries(hist.configured)
            /\ Returned(t, "Reload") =>
                  /\ th[t].ret.attempts \in 1..(allowedRetries(hist.configured) + 1)
                  /\ ~th[t].ret.ok => th[t].ret.attempts = allowedRetries(hist.configured) + 1)
    /\ [][\A t \in Threads :
            /\ attempts(t) =>
                  IF readMessagesFromYaml(dir).ok
                  THEN /\ th'[t].pc = "rl_swap"
                       /\ th'[t].read = readMessagesFromYaml(dir).messages
                       /\ th'[t].attempt = th[t].attempt
                  ELSE IF th[t].attempt < allowedRetries(hist.configured)
                  THEN th'[t].pc = "rl_read" /\ th'[t].attempt = th[t].attempt + 1
                  ELSE /\ th'[t].pc = "idle" /\ ~th'[t].ret.ok
                       /\ UNCHANGED <<messages, runtimeMessages, stats>>
            /\ (th[t].pc = "rl_swap" /\ th'[t] # th[t]) =>
                  /\ messages' = mergeRuntime(th[t].read, runtimeMessages)
                  /\ stats'.lastReloadAt = clock'
                  /\ th'[t].pc = "idle" /\ th'[t].ret.ok]_vars

\* a Reload succeeded at its third attempt
ReloadSucceededOnLastRetry ==
    \E t \in Threads :
        /\ Returned(t, "Reload") /\ th[t].ret.ok /\ th[t].ret.attempts = 3
        /\ stats.lastReloadAt = clock /\ clock > 1

\* the catalog NewMessageCatalog loaded
catalogAtStart == readMessagesFromYaml([exists |-> TRUE, files |-> Files1]).messages

\* C20: with readers calling GetMessageWithCtx while a writer calls
\* LoadMessages, no reader gets an empty short text for a key that existed
\* at the start.
ReadersSeeText ==
    \A t \in Threads :
        (/\ Returned(t, "Get")
         /\ \E lang \in DOMAIN catalogAtStart :
                th[t].ret.key \in DOMAIN catalogAtStart[lang].Set)
        => th[t].ret.msg.ShortText # ""

\* lit occurs in s
occurs(s, lit) == \E i \in 1..Len(s) : HasAt(s, i, lit)

\* the placeholders of one class in s, leftmost first and not overlapping
RECURSIVE tokensFrom(_, _, _)
tokensFrom(class, s, i) ==
    IF i > Len(s) THEN {}
    ELSE IF matchAt(class, s, i).ok
    THEN {[start |-> i, end |-> matchAt(class, s, i).end, name |-> matchAt(class, s, i).name]}
         \cup tokensFrom(class, s, matchAt(class, s, i).end)
    ELSE tokensFrom(class, s, i + 1)

\* the names of the placeholders {{NAME}} of the template that params lacks
missingNames(template, params) ==
    {tok.name : tok \in {k \in tokensFrom("simple", template, 1) : k.name \notin DOMAIN params}}

\* the same, for the placeholders that are not the end of a plural placeholder
missingFreeNames(template, params) ==
    {tok.name : tok \in
        {k \in tokensFrom("simple", template, 1) :
            /\ k.name \notin DOMAIN params
            /\ \A pl \in tokensFrom("plural", template, 1) :
                  pl.end <= k.start \/ k.end <= pl.start}}

issueReported(issue) == \E i \in DOMAIN hist.out.issues : hist.out.issues[i] = issue

noneMissing == \A i \in DOMAIN hist.out.issues :
                   \A class \in {"plural", "number", "date", "simple"} :
                       ~HasPrefix(hist.out.issues[i], class \o "_missing_param_")

\* a parameter was given a value whose text has {{name}} in it
broughtByValue(name) ==
    \E p \in DOMAIN hist.params : occurs(toString(hist.params[p]), "{{" \o name \o "}}")

RECURSIVE split(_, _)
split(s, sep) ==
    IF Index(s, sep) < 0 THEN <<s>>
    ELSE <<SubSeq(s, 1, Index(s, sep))>> \o split(SubSeq(s, Index(s, sep) + 2, Len(s)), sep)

\* the text of a branch <form>:<text>
branchText(branch) ==
    IF Index(branch, ":") < 0 THEN branch
    ELSE SubSeq(branch, Index(branch, ":") + 2, Len(branch))

hasBranch(branches, form) ==
    \E i \in DOMAIN branches : HasPrefix(branches[i], form \o ":")

branchOf(branches, form) ==
    branchText(branches[CHOOSE i \in DOMAIN branches :
                            /\ HasPrefix(branches[i], form \o ":")
                            /\ \A j \in 1..(i - 1) : ~HasPrefix(branches[j], form \o ":")])

\* the branch the CLDR rules choose: that of the form, else `other`, else the last
cldrBranch(branches, lang, count) ==
    IF hasBranch(branches, Form(lang, count)) THEN branchOf(branches, Form(lang, count))
    ELSE IF hasBranch(branches, "other") THEN branchOf(branches, "other")
    ELSE branchText(branches[Len(branches)])

\* the branches of the plural placeholder with match m
pluralBranches(m) == split(m.a \o "|" \o m.b, "|")

\* C22: a template that is one plural placeholder with three or more
\* branches, its parameter a number, renders as the text of the branch of the
\* CLDR form for (resolved language, count), else of `other`, else of the last
\* branch.
PluralBranchByCLDR ==
    (/\ hist.renders > 0
     /\ matchPlural(hist.template, 1).ok
     /\ matchPlural(hist.template, 1).end = Len(hist.template) + 1
     /\ Len(pluralBranches(matchPlural(hist.template, 1))) >= 3
     /\ matchPlural(hist.template, 1).name \in DOMAIN hist.params
     /\ pluralCountFromParam(hist.params[matchPlural(hist.template, 1).name]).ok)
    => hist.out.text =
          cldrBranch(pluralBranches(matchPlural(hist.template, 1)), hist.lang,
                     pluralCountFromParam(
                         hist.params[matchPlural(hist.template, 1).name]).count)

\* |n| % m, for the least int too
absMod(n, m) == IF n >= 0 THEN n % m ELSE (-(n + m)) % m

\* lo <= |n| <= hi
absWithin(n, lo, hi) == (lo <= n /\ n <= hi) \/ (-hi <= n /\ n <= -lo)

\* the rule table of the plural selector, for a base tag and |n|
tableForm(base, n) ==
    IF base = "ar" \/ base \in {"he", "iw"}
    THEN (IF n = 0 /\ base = "ar" THEN "zero"
          ELSE IF absWithin(n, 1, 1) THEN "one"
          ELSE IF absWithin(n, 2, 2) THEN "two"
          ELSE IF absWithin(n, 3, 10) THEN "few"
          ELSE IF absWithin(n, 11, 99) THEN "many"
          ELSE "other")
    ELSE IF base \in {"ru", "uk", "be", "sr", "hr", "bs", "sh"}
    THEN (IF absMod(n, 10) = 1 /\ absMod(n, 100) # 11 THEN "one"
          ELSE IF absMod(n, 10) \in 2..4 /\ absMod(n, 100) \notin 12..14 THEN "few"
          ELSE IF absMod(n, 10) = 0 \/ absMod(n, 10) \in 5..9 \/ absMod(n, 100) \in 11..14
               THEN "many"
          ELSE "other")
    ELSE IF base = "pl"
    THEN (IF absWithin(n, 1, 1) THEN "one"
          ELSE IF absMod(n, 10) \in 2..4 /\ absMod(n, 100) \notin 12..14 THEN "few"
          ELSE IF absMod(n, 10) = 0 \/ absMod(n, 10) \in 5..9 \/ absMod(n, 100) \in 12..14
               THEN "many"
          ELSE "other")
    ELSE IF base \in {"cy", "br", "ga", "gd", "gv", "kw", "mt", "sm", "ak"}
    THEN (IF n = 0 THEN "zero"
          ELSE IF absWithin(n, 1, 1) THEN "one"
          ELSE IF absWithin(n, 2, 2) THEN "two"
          ELSE IF absWithin(n, 3, 3) THEN "few"
          ELSE IF absWithin(n, 6, 6) THEN "many"
          ELSE "other")
    ELSE IF base \in {"en", "es", "fr", "de", "it", "pt", "nl", "no", "sv", "da",
                      "fi", "tr", "el", "ja", "ko", "zh", "th", "vi", "id", "hi"}
    THEN (IF absWithin(n, 1, 1) THEN "one" ELSE "other")
    ELSE "other"

\* C23: Form(lang, n) is one of the six forms, Form(lang, -n) is the same
\* form, the form is that of the base tag and that of the rule table for the
\* base tag and |n|, and `other` for a language the table does not have.
FormByRuleTable ==
    hist.calls > 0 =>
        /\ hist.form \in {"zero", "one", "two", "few", "many", "other"}
        /\ hist.ofNegated = hist.form
        /\ hist.form = Form(baseLangTag(normalizeLangTag(hist.lang)), hist.count)
        /\ hist.form = tableForm(baseLangTag(normalizeLangTag(hist.lang)), hist.count)

\* the entry the latest lookup found
lookedUp == messages[hist.lang].Set[hist.msgKey]

pluralParamOf(entry) == IF entry.PluralParam = "" THEN "count" ELSE entry.PluralParam

hasForms(entry) == DOMAIN entry.ShortForms # {} \/ DOMAIN entry.LongForms # {}

\* the plural parameter is present and a number
counting(entry, params) ==
    /\ pluralParamOf(entry) \in DOMAIN params
    /\ params[pluralParamOf(entry)].t \in {"int", "float"}

\* the template of the form, else of `other`, else the plain one
templateOfForm(forms, form, plain) ==
    IF form \in DOMAIN forms /\ forms[form] # "" THEN forms[form]
    ELSE IF "other" \in DOMAIN forms /\ forms["other"] # "" THEN forms["other"]
    ELSE plain

\* the form of the rule table for the plural parameter, a float cut to its
\* integer part
formFor(entry, lang, params) ==
    tableForm(baseLangTag(lang), pluralCountFromParam(params[pluralParamOf(entry)]).count)

\* C24: for an entry that has short_forms or long_forms, with the plural
\* parameter present and a number, short and long are each the non-empty
\* template of the CLDR form for (resolved language, count), else the
\* non-empty `other` form, else the plain template; without the parameter, or
\* when it is not a number, they are the plain templates.
FormsChosenByCount ==
    (hist.selects > 0 /\ hist.msgKey \in DOMAIN messages[hist.lang].Set /\ hasForms(lookedUp))
    => IF counting(lookedUp, hist.params)
       THEN /\ hist.chosen.shortMessage =
                  templateOfForm(lookedUp.ShortForms,
                                 formFor(lookedUp, hist.lang, hist.params), lookedUp.ShortTpl)
            /\ hist.chosen.longMessage =
                  templateOfForm(lookedUp.LongForms,
                                 formFor(lookedUp, hist.lang, hist.params), lookedUp.LongTpl)
       ELSE /\ hist.chosen.shortMessage = lookedUp.ShortTpl
            /\ hist.chosen.longMessage = lookedUp.LongTpl

\* goroutine t holds a snapshot
holdsSnapshot(t) == th[t].op = "SnapshotStats" /\ th[t].ret.kind = "snapshot"

\* C25: a snapshot taken after ResetStats returned, no increment having
\* reached the registry and no load having set the reload time in between,
\* has the five maps empty and the zero last reload time.
ResetZerosEverything ==
    \A t \in Threads :
        (holdsSnapshot(t) /\ th[t].ret.quiet)
        => /\ \A f \in StatMaps : th[t].ret.seen[f] = EmptyMap
           /\ th[t].ret.value.lastReloadAt = 0

\* such a snapshot, of a registry that had "__overflow__" before the reset,
\* and after an increment that was on its way during the reset
EmptyAfterSaturation ==
    \E t \in Threads :
        /\ holdsSnapshot(t) /\ th[t].ret.quiet
        /\ th[t].ret.overflowed /\ th[t].ret.lost

\* C26: a snapshot shows the five maps and the last reload time the registry
\* held at the moment of the call, and what it shows never changes afterwards,
\* whatever is incremented, reset or reloaded.
SnapshotIsIndependentCopy ==
    \A t \in Threads :
        holdsSnapshot(t)
        => /\ th[t].ret.seen = th[t].ret.at
           /\ th[t].ret.value.lastReloadAt = th[t].ret.atTime
           /\ mapsOf(th[t].ret.value, stats.heap) = th[t].ret.seen

\* a goroutine holds a snapshot with a counter in it, and the registry has
\* since counted more, or was reset, and a load has set the reload time
SnapshotOutlived ==
    \E t \in Threads :
        /\ holdsSnapshot(t)
        /\ th[t].ret.seen.missingMessages # EmptyMap
        /\ mapsOf(stats, stats.heap) # th[t].ret.seen
        /\ stats.lastReloadAt # th[t].ret.value.lastReloadAt

\* the calls of onLanguageFallback a returned request has made
fallbacksOf(r) == {i \in DOMAIN r.handlers : r.handlers[i].kind = "LanguageFallback"}

\* the request was answered from a language of the catalog
served(r) == r.msg.Code # CodeMissingLanguage

\* C27: a request records a fallback exactly when it is served by a language
\* other than the normalized requested one: then onLanguageFallback(requested,
\* resolved) has run once (one increment of LanguageFallbacks, one event); a
\* request served by the requested language, and a request that ends as
\* missing-language, have recorded none, whatever Reload did meanwhile.
FallbackRecordedIffServedByOther ==
    \A t \in Threads :
        Returned(t, "Get") =>
            LET r == th[t].ret IN
            IF served(r) /\ r.resolved # r.requested
            THEN /\ Cardinality(fallbacksOf(r)) = 1
                 /\ \A i \in fallbacksOf(r) :
                        r.handlers[i] = evtLanguageFallback(r.requested, r.resolved)
            ELSE fallbacksOf(r) = {}

\* the tag has no upper-case letter, no "_" and no whitespace at its ends
isNormal(tag) ==
    /\ \A i \in 1..Len(tag) : ~Contains(UpperLetters, Char(tag, i)) /\ Char(tag, i) # "_"
    /\ tag # "" => ~IsSpace(Char(tag, 1)) /\ ~IsSpace(Char(tag, Len(tag)))

\* C28: normalizing a normalized tag changes nothing; the normalized tag has
\* no upper case, no surrounding whitespace and no "_"; and a tag that
\* differs from another in case, surrounding whitespace or "_" against "-"
\* only normalizes to the same tag and resolves to the same language.
NormalizeIdempotent ==
    hist.calls > 0 =>
        /\ hist.twice = hist.out
        /\ isNormal(hist.out)
        /\ hist.outOther = hist.out
        /\ hist.langOther = hist.lang

\* a tag with upper case, "_" and whitespace before it, and a respelling of
\* it, were resolved to the language the catalog has under the normalized tag
RespelledTagResolved ==
    /\ hist.calls > 0
    /\ hist.tag # hist.out /\ hist.other # hist.tag /\ hist.other # hist.out
    /\ \E i \in 1..Len(hist.tag) : Char(hist.tag, i) = "_"
    /\ \E i \in 1..Len(hist.tag) : Contains(UpperLetters, Char(hist.tag, i))
    /\ IsSpace(Char(hist.other, 1))
    /\ hist.lang.found /\ hist.lang.lang = hist.out /\ Len(hist.out) > 1

\* goroutine t waits for something another party has yet to do: an attempt
\* of the retry loop on the directory, or the consumer's close of observerDone,
\* which comes after the sink calls for the queued events
waiting(t) ==
    \/ th[t].pc = "rl_read"
    \/ th[t].pc = "cl_wait" /\ ~consumerDone(observerDone)

\* C29: no goroutine holds dmc.mu exclusively while it waits on file I/O, on
\* a retry, on the observer consumer or on a sink call.
ExclusiveLockNeverWaits == \A t \in Threads : mu = t => ~waiting(t)

\* C30: a LoadMessages call that returned an error left the primary and the
\* runtime mapping as they were before the call: no entry of its batch was
\* stored (for requests, or for a later Reload to merge) and no language was
\* created.
FailedLoadChangesNothing ==
    (hist.loads > 0 /\ ~hist.ok) =>
        /\ messages = hist.before
        /\ runtimeMessages = hist.beforeRuntime

\* C31: a request made with strict templates on produces the same observer
\* events and the same stats increments as with strict templates off, and
\* returns the same Code and Key; only the texts may differ.
StrictChangesTextOnly ==
    hist.calls > 0 =>
        /\ hist.strict.events = hist.lenient.events
        /\ hist.strictStats = hist.lenientStats
        /\ hist.strict.msg.Code = hist.lenient.msg.Code
        /\ hist.strict.msg.Key = hist.lenient.msg.Key

\* some call of Close has returned
closedOnce == \E u \in Threads : Returned(u, "Close")

IncrementTargetIsLive ==
    \A t \in Threads : th[t].pc = "locked" => live(th[t].target)

\* the events on their way to the sink: queued, or handed to the sink
inPipeline ==
    {chan.buf[i] : i \in 1..Len(chan.buf)}
    \cup (IF worker.pc \in {"sink", "hung"} THEN {worker.evt} ELSE {})

\* what the registry holds under the counter an event is counted by
counterOf(evt) ==
    LET m == stats[statMapOf(evt)]
        k == sanitizeStatKey(statKeyOf(evt))
    IN IF k \in DOMAIN m THEN m[k]
       ELSE IF overflowStatKey \in DOMAIN m THEN m[overflowStatKey]
       ELSE 0

\* C34: the handler of a fallback, a miss or a template issue increments the
\* counter before it enqueues the event: for every event that is queued or
\* at the sink the registry has taken the increment and the counter is at
\* least 1, unless a ResetStats has run since.
IncrementBeforeEvent ==
    \A evt \in inPipeline :
        IF evt \in hist.counted THEN counterOf(evt) >= 1 ELSE hist.wiped

\* the sink holds an event that a request published while earlier events
\* were counted, and no ResetStats has run
SinkCalledAfterIncrement ==
    /\ worker.pc = "sink"
    /\ ~hist.wiped
    /\ counterOf(worker.evt) >= 1
    /\ Cardinality(hist.counted) > 1

emittedBranch(m, val) == IF isPluralOne(val).isOne THEN m.a ELSE m.b

\* C36: the text the plural pass emits is left literal by the later passes: a
\* template that begins with a plural placeholder whose count is supplied
\* renders as a text that begins with the chosen branch, whatever placeholder
\* syntax the branch has.
PluralBranchLeftLiteral ==
    (/\ hist.renders > 0
     /\ matchPlural(hist.template, 1).ok
     /\ matchPlural(hist.template, 1).name \in DOMAIN hist.params
     /\ isPluralOne(hist.params[matchPlural(hist.template, 1).name]).ok)
    => HasPrefix(hist.out.text,
                 emittedBranch(matchPlural(hist.template, 1),
                               hist.params[matchPlural(hist.template, 1).name]))

=============================================================================
